---------------------------- MODULE Spec2Model ----------------------------
(***************************************************************************)
(* A model of logZ: the SPSC byte ring (RingBytes.h), the growing queue    *)
(* (Queue.h), the logging front end (Logger.h) and the backend consumer    *)
(* (Backend.h).                                                            *)
(*                                                                         *)
(* Eleven specifications share this module:                                *)
(*   SpecRing   one RingBytes driven by reserve_write / read / commit_read *)
(*   SpecQueue  one Queue, a producer and a consumer thread interleaved at *)
(*              the level of the atomic loads and stores of Queue.h        *)
(*   Spec       producers logging through Logger::log_impl, the registry   *)
(*              and the consumer thread of Backend.h, start(), stop() and  *)
(*              the destructor                                             *)
(*   SpecLive   Spec without stop(), with the threads scheduled fairly     *)
(*   SpecSeq    one Queue used by one thread, call after call              *)
(*   SpecCodec  an argument list through the encoder (Encoder.h, Logger.h) *)
(*              and the decoder (Decoder.h)                                *)
(*   SpecFormat one record formatted into a line (Backend.h)               *)
(*   SpecSink   one Sinker writing to its directory (Sinker.h)             *)
(*   SpecLife   threads calling Backend::start() and stop() at the same    *)
(*              time, a producer that keeps logging, the consumer thread   *)
(*   SpecLifeFair  SpecLife with the threads scheduled fairly              *)
(*   SpecOut    one StringRingBuffer (StringRingBuffer.h) and its sink     *)
(* The variables of the specifications that are not running stay at their  *)
(* initial values.                                                         *)
(***************************************************************************)
EXTENDS Integers, Sequences, FiniteSets, TLC

VARIABLES
    \* ---- SpecRing: one RingBytes
    rb,         \* the ring: [cap, mask, wp, rp]
    rbLast,     \* the last call made on it and what it returned
    \* ---- SpecQueue: one Queue, its producer thread and its consumer thread
    qNodes,     \* every Node ever allocated, by address (1, 2, ...)
    qWrite,     \* Queue::write_node_
    qRead,      \* Queue::read_node_
    qProd,      \* the producer thread: where it is in reserve_write, its locals
    qCons,      \* the consumer thread: where it is in read / commit_read, its locals
    qSizes,     \* the sizes of the messages reserved so far, in order
    produced,   \* the bytes the producer has written, in order
    consumed,   \* the bytes the consumer has read and committed, in order
    qFreedUnread, \* bytes that were unread in a node when it was deleted
    \* ---- Spec: Logger.h and Backend.h
    prod,       \* the producer threads: where each is in log_impl, its locals
    queues,     \* the Queue owned by the QueueWrapper made for each producer
    wrappers,   \* the QueueWrappers: [state, abandoned]
    m_current_list,      \* the vector m_current_list points to
    m_snapshot_list,     \* the vector m_snapshot_list points to
    sameVector,          \* whether the two lists point to the same vector
    m_pending_deletion,  \* Backend::m_pending_deletion
    m_dirty,             \* Backend::m_dirty
    running_,            \* Backend::running_
    dropped_messages_,   \* Backend::dropped_messages_
    consumer_thread_,    \* Backend::consumer_thread_: TRUE when joinable
    cons,       \* the consumer thread: where it is in consume_loop, its locals
    counter,    \* the static counter of consume_loop
    output_buffer_,      \* Backend::output_buffer_: the lines not yet flushed
    file,       \* the lines the Sinker has written
    ctl,        \* the thread that calls start() and stop()
    liveConsumers,       \* consumer threads started and not yet joined
    obs,        \* what an observer of the run has seen (history only)
    plan,       \* what the threads of this run will do at most
    \* ---- SpecSeq: one Queue used by one thread, as in the QueueTest cases
    seqQueue,   \* the Queue: [nodes, write_node, read_node]
    seqLast,    \* the last call made on it, what it returned, the Queue before
    \* ---- SpecCodec: one argument list, encoded and decoded
    codec,      \* the arguments, the encoder used, the blob, what was decoded
    \* ---- SpecFormat: one record formatted into a line
    fmt,        \* the level, the timestamp, the message and the line made of them
    \* ---- SpecSink: one Sinker and the directory it writes to
    sink,       \* the Sinker's fields, the files, the day, the last write
    \* ---- SpecLife: threads calling start() and stop(), the consumer thread
    life,       \* running_, consumer_thread_, the threads and where they are
    \* ---- SpecOut: one StringRingBuffer and the bytes its sink has taken
    out         \* data_, capacity_, read_, write_; what was appended and taken

ringVars == <<rb, rbLast>>
pureVars == <<seqQueue, seqLast, codec, fmt, sink, life, out>>
queueVars == <<qNodes, qWrite, qRead, qProd, qCons, qSizes, produced, consumed,
               qFreedUnread>>
registryVars == <<wrappers, m_current_list, m_snapshot_list, sameVector,
                  m_pending_deletion, m_dirty>>
logVars == <<prod, queues, wrappers, m_current_list, m_snapshot_list,
             sameVector, m_pending_deletion, m_dirty, running_, dropped_messages_,
             consumer_thread_, cons, counter, output_buffer_, file, ctl,
             liveConsumers, obs, plan>>
vars == <<rb, rbLast, qNodes, qWrite, qRead, qProd, qCons, qSizes, produced,
          consumed, qFreedUnread, prod, queues, wrappers, m_current_list,
          m_snapshot_list, sameVector, m_pending_deletion, m_dirty, running_,
          dropped_messages_, consumer_thread_, cons, counter, output_buffer_,
          file, ctl, liveConsumers, obs, plan, seqQueue, seqLast, codec, fmt, sink,
          life, out>>

(***************************************************************************)
(* Bounds of the model                                                     *)
(***************************************************************************)
\* RingBytes positions only grow; the ring model stops reserving once
\* write_pos has gone this many times round the buffer.
MaxLaps == 2

\* Capacities handed to the RingBytes constructor in SpecRing.
RingRequested == {3, 8, 32}

\* SpecQueue: the number of messages the producer writes, and their sizes.
MaxMsgs == 3
MsgSizes == 1..2

\* Sizes are in units of the model, not bytes: the initial capacity of a
\* Queue (4096 bytes in Logger.h and Backend.h, 512 in the Multithreaded test)
\* and Queue::MAX_NODE_CAPACITY (64 MiB) are scaled down to a few units.
InitialCapacity == 2
MAX_NODE_CAPACITY == 4

\* Spec: the producer threads, the sizes of the encoded arguments of a log
\* call, and the timestamps system_clock can return.
NumProducers == 2
ArgSizes == {0, 1}
MaxClock == 2

\* Spec: a run follows one of these plans: the log calls the producers make
\* between them, the producer threads that exit, the calls of start() and
\* stop() the controlling thread makes, whether the producers take their
\* queue as Logger::get_thread_queue gives it (local) rather than from the
\* backend, and whether the backend is destructed (dtor).
MaxLogs == 2
MaxCalls == 4
Plans == {[logs |-> MaxLogs, exits |-> 0, calls |-> 2, local |-> 0, dtor |-> 0],
          [logs |-> 1, exits |-> 0, calls |-> MaxCalls, local |-> 0, dtor |-> 0],
          [logs |-> 1, exits |-> 1, calls |-> 2, local |-> 0, dtor |-> 0],
          [logs |-> 1, exits |-> 0, calls |-> 2, local |-> 1, dtor |-> 0],
          [logs |-> 1, exits |-> 0, calls |-> 2, local |-> 0, dtor |-> 1]}

\* sizeof(Metadata), in units of the model: the first unit holds level
\* and timestamp, the second args_size and decoder.
MetaSize == 2

\* consume_loop flushes and reclaims every 50000 iterations, and get_writer
\* flushes when fewer than 256 bytes are free; both scaled down (iterations,
\* lines).
FlushEvery == 2
OutputLines == 2

Producers == 1..NumProducers
UINT64_MAX == MaxClock + 1

(***************************************************************************)
(* RingBytes.h                                                             *)
(***************************************************************************)
RECURSIVE Pow2AtLeast(_, _)
Pow2AtLeast(p, n) == IF p >= n THEN p ELSE Pow2AtLeast(2 * p, n)

\* RingBytes::next_power_of_2: 1 for 0, else the least power of two >= n
\* (what the bit smearing of --n computes).
next_power_of_2(n) == IF n = 0 THEN 1 ELSE Pow2AtLeast(1, n)

\* a & b on naturals.
RECURSIVE BitAnd(_, _)
BitAnd(a, b) ==
    IF a = 0 \/ b = 0 THEN 0
    ELSE 2 * BitAnd(a \div 2, b \div 2) + (IF a % 2 = 1 /\ b % 2 = 1 THEN 1 ELSE 0)

\* RingBytes::RingBytes(capacity)
RingBytesNew(capacity) ==
    LET c == next_power_of_2(capacity)
    IN  [cap |-> c, mask |-> c - 1, wp |-> 0, rp |-> 0]

\* RingBytes::available_read / available_write
RB_available_read(r) == r.wp - r.rp
RB_available_write(r) == r.cap - (r.wp - r.rp)

\* The buffer index a position maps to: pos & capacity_mask_.
RB_index(r, pos) == BitAnd(pos, r.mask)

\* RingBytes::reserve_write, a mutation: the wrap check is missing.
RB_reserve_ok_nowrapcheck(r, size) ==
    /\ ~(size = 0 \/ size > r.cap)
    /\ ~(size > r.cap - (r.wp - r.rp))

\* RingBytes::reserve_write, a mutation: the space check is missing.
RB_reserve_ok_nospacecheck(r, size) ==
    /\ ~(size = 0 \/ size > r.cap)
    /\ ~(RB_index(r, r.wp) + size > r.cap)

\* RingBytes::reserve_write: whether it returns a pointer.
RB_reserve_ok(r, size) ==
    /\ ~(size = 0 \/ size > r.cap)
    /\ ~(size > r.cap - (r.wp - r.rp))
    /\ ~(RB_index(r, r.wp) + size > r.cap)

\* RingBytes::reserve_write: the ring after the call. A successful call
\* stores write_pos_ + size at once (RingBytes.h:87).
RB_reserve_write(r, size) ==
    IF RB_reserve_ok(r, size) THEN [r EXCEPT !.wp = r.wp + size] ELSE r

\* RingBytes::read, a mutation: the check against the unread bytes is missing.
RB_read_ok_nocheck(r, size) == size # 0

\* RingBytes::read: whether it returns a pointer.
RB_read_ok(r, size) == size # 0 /\ ~(size > r.wp - r.rp)

\* RingBytes::commit_read
RB_commit_read(r, size) == [r EXCEPT !.rp = r.rp + size]

(***************************************************************************)
(* Queue.h: a linked list of Nodes, each owning a RingBytes.  A Node is    *)
(* [ring, next, capacity, buf, live]: next is the address of the next Node *)
(* (0 for nullptr), buf the bytes of the ring's buffer (0 where nothing    *)
(* was written yet: make_unique<std::byte[]> zeroes it), live whether the  *)
(* Node has not been deleted.                                              *)
(***************************************************************************)
Min(a, b) == IF a <= b THEN a ELSE b

\* Queue::Node::Node(cap)
NodeNew(cap) ==
    [ring |-> RingBytesNew(cap), next |-> 0, capacity |-> cap,
     buf |-> [i \in 0..(next_power_of_2(cap) - 1) |-> 0], live |-> TRUE]

\* Queue::reserve_write, lines 99-105: double until the write fits or the
\* cap is reached; max is the scale MAX_NODE_CAPACITY has in the
\* specification that uses the Queue.
RECURSIVE GrowUntilFitsTo(_, _, _)
GrowUntilFitsTo(new_capacity, size, max) ==
    IF new_capacity < size /\ new_capacity < max
    THEN GrowUntilFitsTo(Min(new_capacity * 2, max), size, max)
    ELSE new_capacity

GrowUntilFits(new_capacity, size) ==
    GrowUntilFitsTo(new_capacity, size, MAX_NODE_CAPACITY)

\* Queue::reserve_write, lines 93-105: the capacity of the Node to append.
NewCapacityTo(capacity, size, max) ==
    GrowUntilFitsTo(Min(capacity * 2, max), size, max)

NewCapacity(capacity, size) == NewCapacityTo(capacity, size, MAX_NODE_CAPACITY)

\* The n bytes at a pointer into a Node's buffer; -1 stands for a byte past
\* the end of the buffer.
BytesAt(node, pos, n) ==
    [i \in 1..n |-> IF pos + i - 1 \in DOMAIN node.buf THEN node.buf[pos + i - 1] ELSE -1]

\* The buffer after n bytes, numbered from first, are stored at pos.
StoreBytes(buf, pos, n, first) ==
    [i \in DOMAIN buf |-> IF i >= pos /\ i < pos + n THEN first + (i - pos) ELSE buf[i]]

(***************************************************************************)
(* Queue.h again, each member function as one step: a Queue is             *)
(* [nodes, write_node, read_node], nodes holding every Node it ever        *)
(* allocated by address.  A pointer is [node, pos]; node 0 is nullptr.     *)
(***************************************************************************)
NullPtr == [node |-> 0, pos |-> 0]

\* Queue::Queue(initial_capacity)
QueueNew(initial_capacity) ==
    [nodes |-> <<NodeNew(initial_capacity)>>, write_node |-> 1, read_node |-> 1]

\* delete node
Deleted(node) == [node EXCEPT !.live = FALSE, !.buf = <<>>]

\* Queue::reserve_write, a mutation: the check of the size against
\* MAX_NODE_CAPACITY (lines 107-110) is missing.
Q_allocates_nosizecheck(q, size, max) ==
    /\ size # 0
    /\ ~RB_reserve_ok(q.nodes[q.write_node].ring, size)
    /\ ~(q.nodes[q.write_node].capacity >= max)

\* Queue::reserve_write: whether the call reaches new Node(new_capacity)
\* at line 112.
Q_allocates(q, size, max) ==
    /\ size # 0
    /\ ~RB_reserve_ok(q.nodes[q.write_node].ring, size)
    /\ ~(q.nodes[q.write_node].capacity >= max)
    /\ ~(size > max)

\* Queue::reserve_write: [q |-> the queue after the call, ptr |-> its result]
Q_reserve_write_to(q, size, max) ==
    LET cw == q.write_node
        nd == q.nodes[cw]
        fresh == NodeNew(NewCapacityTo(nd.capacity, size, max))
        addr == Len(q.nodes) + 1
    IN  IF size = 0 THEN [q |-> q, ptr |-> NullPtr]
        ELSE IF RB_reserve_ok(nd.ring, size)
        THEN [q |-> [q EXCEPT !.nodes[cw].ring = RB_reserve_write(@, size)],
              ptr |-> [node |-> cw, pos |-> RB_index(nd.ring, nd.ring.wp)]]
        ELSE IF ~Q_allocates(q, size, max) THEN [q |-> q, ptr |-> NullPtr]
        ELSE IF ~RB_reserve_ok(fresh.ring, size) THEN [q |-> q, ptr |-> NullPtr]
        ELSE [q |-> [nodes |-> Append([q.nodes EXCEPT ![cw].next = addr],
                                      [fresh EXCEPT !.ring = RB_reserve_write(@, size)]),
                     write_node |-> addr,
                     read_node |-> q.read_node],
              ptr |-> [node |-> addr, pos |-> 0]]

Q_reserve_write(q, size) == Q_reserve_write_to(q, size, MAX_NODE_CAPACITY)

\* Queue::current_capacity
Q_current_capacity(q) == q.nodes[q.write_node].capacity

\* Queue::node_count: the Nodes from read_node_ to write_node_
RECURSIVE Q_count_from(_, _)
Q_count_from(q, current) ==
    IF current = 0 THEN 0
    ELSE IF current = q.write_node THEN 1
    ELSE 1 + Q_count_from(q, q.nodes[current].next)

Q_node_count(q) == Q_count_from(q, q.read_node)

\* Queue::read: [q |-> the queue after the call, ptr |-> its result]
Q_read(q, size) ==
    LET cr == q.read_node
        nd == q.nodes[cr]
        nx == q.nodes[nd.next]
        switched == [q EXCEPT !.read_node = nd.next, !.nodes[cr] = Deleted(@)]
    IN  IF size = 0 THEN [q |-> q, ptr |-> NullPtr]
        ELSE IF RB_read_ok(nd.ring, size)
        THEN [q |-> q, ptr |-> [node |-> cr, pos |-> RB_index(nd.ring, nd.ring.rp)]]
        ELSE IF nd.next = 0 THEN [q |-> q, ptr |-> NullPtr]
        ELSE IF RB_available_read(nd.ring) = 0
        THEN [q |-> switched,
              ptr |-> IF RB_read_ok(nx.ring, size)
                      THEN [node |-> nd.next, pos |-> RB_index(nx.ring, nx.ring.rp)]
                      ELSE NullPtr]
        ELSE [q |-> q, ptr |-> NullPtr]

\* Queue::commit_read: the queue after the call
Q_commit_read(q, size) ==
    LET cr == q.read_node
        committed == [q EXCEPT !.nodes[cr].ring = RB_commit_read(@, size)]
        nd == committed.nodes[cr]
    IN  IF RB_available_read(nd.ring) = 0 /\ nd.next # 0
        THEN [committed EXCEPT !.read_node = nd.next, !.nodes[cr] = Deleted(@)]
        ELSE committed

\* Queue::available_read: the sum over the Nodes from read_node_ on
RECURSIVE Q_available_from(_, _)
Q_available_from(q, current) ==
    IF current = 0 THEN 0
    ELSE RB_available_read(q.nodes[current].ring)
         + (IF q.nodes[current].next = 0 \/ current = q.write_node THEN 0
            ELSE Q_available_from(q, q.nodes[current].next))

Q_available_read(q) == Q_available_from(q, q.read_node)

\* Queue::is_empty
Q_is_empty(q) == Q_available_read(q) = 0

\* Queue::available_write: the free space of the tail Node's ring
Q_available_write(q) == RB_available_write(q.nodes[q.write_node].ring)

(***************************************************************************)
(* Initial states                                                          *)
(***************************************************************************)
NoCall == [op |-> "none", n |-> 0, ok |-> FALSE, wp |-> 0, rp |-> 0]

RingInit ==
    /\ rb \in {RingBytesNew(c) : c \in RingRequested}
    /\ rbLast = NoCall

\* The ring of a specification that makes no call on it.
RingIdle == rb = RingBytesNew(1) /\ rbLast = NoCall

ProdIdle == [pc |-> "idle", size |-> 0, cap |-> 0, node |-> 0, pos |-> 0]
ConsIdle == [pc |-> "idle", size |-> 0, next |-> 0, data |-> <<>>, k |-> 0]

\* Queue::Queue(initial_capacity)
QueueInit ==
    /\ qNodes = <<NodeNew(InitialCapacity)>>
    /\ qWrite = 1
    /\ qRead = 1
    /\ qProd = ProdIdle
    /\ qCons = ConsIdle
    /\ qSizes = <<>>
    /\ produced = <<>>
    /\ consumed = <<>>
    /\ qFreedUnread = 0

\* A Queue that has not been made, or has been destroyed with its wrapper.
NoQueue == [nodes |-> <<>>, write_node |-> 0, read_node |-> 0]

ProdStart == [pc |-> "idle", queue |-> FALSE, n |-> 0, ts |-> 0, args |-> 0,
              ptr |-> NullPtr, exited |-> FALSE]
ConsNone == [pc |-> "none", min_timestamp |-> 0, selected_queue |-> 0,
             ptr |-> NullPtr, metadata |-> <<>>, final |-> FALSE]
ObsStart == [failed |-> 0, committed |-> {}, atStop |-> {}, started |-> FALSE,
             stopCalled |-> FALSE, logAfterStart |-> FALSE,
             writeAfterStop |-> FALSE, steady |-> TRUE]

\* The plan of a run in which no thread logs.
NoPlan == [logs |-> 0, exits |-> 0, calls |-> 0, local |-> 0, dtor |-> 0]

\* The Queue and the codec of a specification that makes no call on them.
NoSeqCall == [op |-> "none", n |-> 0, ok |-> FALSE, allocated |-> FALSE, calls |-> 0,
              before |-> NoQueue]
SeqIdle == seqQueue = NoQueue /\ seqLast = NoSeqCall
NoCodec == [pc |-> "none"]
CodecIdle == codec = NoCodec

\* The formatter and the Sinker of a specification that makes no call on them.
NoFmt == [pc |-> "none"]
NoSink == [pc |-> "none"]
NoLife == [pc |-> "none"]
NoOut == [pc |-> "none"]
LifeIdle == life = NoLife
OutIdle == out = NoOut
IoIdle == fmt = NoFmt /\ sink = NoSink /\ LifeIdle /\ OutIdle

\* Backend::Backend: both lists point to the same empty vector
LogInit ==
    /\ prod = [p \in Producers |-> ProdStart]
    /\ queues = [p \in Producers |-> NoQueue]
    /\ wrappers = [p \in Producers |-> [state |-> "none", abandoned |-> FALSE]]
    /\ m_current_list = <<>>
    /\ m_snapshot_list = <<>>
    /\ sameVector = TRUE
    /\ m_pending_deletion = <<>>
    /\ m_dirty = FALSE
    /\ running_ = FALSE
    /\ dropped_messages_ = 0
    /\ consumer_thread_ = FALSE
    /\ cons = ConsNone
    /\ counter = 0
    /\ output_buffer_ = <<>>
    /\ file = <<>>
    /\ ctl = [pc |-> "idle", hist |-> <<>>]
    /\ liveConsumers = 0
    /\ obs = ObsStart

(***************************************************************************)
(* SpecRing: the calls of one producer and one consumer on a RingBytes.    *)
(* The consumer commits byte counts that a read() of that size returns a   *)
(* pointer for, as every caller in the repository does.                    *)
(***************************************************************************)
\* reserve_write(n), every n from 0 to one past the capacity
RingReserve ==
    \E n \in 0..(rb.cap + 1) :
        /\ rb.wp + n <= MaxLaps * rb.cap
        /\ rbLast' = [op |-> "reserve_write", n |-> n, ok |-> RB_reserve_ok(rb, n),
                      wp |-> rb.wp, rp |-> rb.rp]
        /\ rb' = RB_reserve_write(rb, n)
        /\ UNCHANGED <<queueVars, pureVars, logVars>>

\* read(n)
RingRead ==
    \E n \in 0..(rb.cap + 1) :
        /\ rbLast' = [op |-> "read", n |-> n, ok |-> RB_read_ok(rb, n),
                      wp |-> rb.wp, rp |-> rb.rp]
        /\ UNCHANGED rb
        /\ UNCHANGED <<queueVars, pureVars, logVars>>

\* commit_read(n) of n bytes that read(n) returns
RingCommitRead ==
    \E n \in 1..rb.cap :
        /\ RB_read_ok(rb, n)
        /\ rbLast' = [op |-> "commit_read", n |-> n, ok |-> TRUE,
                      wp |-> rb.wp, rp |-> rb.rp]
        /\ rb' = RB_commit_read(rb, n)
        /\ UNCHANGED <<queueVars, pureVars, logVars>>

RingNext == RingReserve \/ RingRead \/ RingCommitRead

RingSpecInit ==
    RingInit /\ QueueInit /\ LogInit /\ plan = NoPlan /\ SeqIdle /\ CodecIdle /\ IoIdle

SpecRing == RingSpecInit /\ [][RingNext]_vars

(***************************************************************************)
(* Claims about RingBytes, checked under SpecRing                          *)
(***************************************************************************)
LastReserve == rbLast.op = "reserve_write"

\* The condition the specification gives for a reservation of n bytes on a
\* ring of capacity c at positions wp, rp.
FitsAt(c, wp, rp, n) == wp - rp + n <= c /\ (wp % c) + n <= c

\* C7 as stated: for every n <= C, reserve_write(n) returns a pointer if and
\* only if write_pos - read_pos + n <= C and (write_pos mod C) + n <= C.
\* reserve_write(0) returns nullptr although both inequalities hold.
C7_AsStated ==
    (LastReserve /\ rbLast.n <= rb.cap)
        => (rbLast.ok <=> FitsAt(rb.cap, rbLast.wp, rbLast.rp, rbLast.n))

\* C7, amended: for every n with 1 <= n <= C, reserve_write(n) returns a
\* pointer if and only if write_pos - read_pos + n <= C and
\* (write_pos mod C) + n <= C; a reservation of exactly the remaining tail
\* succeeds when that many bytes are free, and every reservation on a full
\* ring fails.
C7_ReserveIff ==
    (LastReserve /\ 1 <= rbLast.n /\ rbLast.n <= rb.cap) =>
        /\ rbLast.ok <=> FitsAt(rb.cap, rbLast.wp, rbLast.rp, rbLast.n)
        /\ (/\ rbLast.n = rb.cap - (rbLast.wp % rb.cap)
            /\ rbLast.n <= rb.cap - (rbLast.wp - rbLast.rp)) => rbLast.ok
        /\ (rbLast.wp - rbLast.rp = rb.cap) => ~rbLast.ok

\* C7's case: a reservation of exactly the remaining tail, made after both
\* positions have moved, has succeeded.
C7_Witness ==
    /\ LastReserve /\ rbLast.ok
    /\ rbLast.rp > 0
    /\ rbLast.wp % rb.cap # 0
    /\ rbLast.n = rb.cap - (rbLast.wp % rb.cap)

QP_Call ==
    /\ qProd.pc = "idle"
    /\ Len(qSizes) < MaxMsgs
    /\ \E size \in MsgSizes : qProd' = [ProdIdle EXCEPT !.pc = "reserve", !.size = size]
    /\ UNCHANGED <<qNodes, qWrite, qRead, qCons, qSizes, produced, consumed, qFreedUnread>>
    /\ UNCHANGED <<ringVars, pureVars, logVars>>

\* Queue::reserve_write, lines 79-110: the reservation in the tail Node.
QP_Reserve ==
    /\ qProd.pc = "reserve"
    /\ LET nd == qNodes[qWrite]
       IN  IF RB_reserve_ok(nd.ring, qProd.size)
           THEN /\ qNodes' = [qNodes EXCEPT ![qWrite].ring = RB_reserve_write(@, qProd.size)]
                /\ qProd' = [qProd EXCEPT !.pc = "memcpy", !.node = qWrite,
                                          !.pos = RB_index(nd.ring, nd.ring.wp)]
                /\ qSizes' = Append(qSizes, qProd.size)
           ELSE /\ UNCHANGED <<qNodes, qSizes>>
                /\ IF nd.capacity >= MAX_NODE_CAPACITY \/ qProd.size > MAX_NODE_CAPACITY
                   THEN qProd' = ProdIdle
                   ELSE qProd' = [qProd EXCEPT !.pc = "link",
                                      !.cap = NewCapacity(nd.capacity, qProd.size)]
    /\ UNCHANGED <<qWrite, qRead, qCons, produced, consumed, qFreedUnread>>
    /\ UNCHANGED <<ringVars, pureVars, logVars>>

\* Queue::reserve_write, lines 112-123: the new Node, the reservation in it
\* and the store to current_write->next.
QP_Link ==
    /\ qProd.pc = "link"
    /\ LET nd == NodeNew(qProd.cap)
           addr == Len(qNodes) + 1
       IN  IF RB_reserve_ok(nd.ring, qProd.size)
           THEN /\ qNodes' = Append([qNodes EXCEPT ![qWrite].next = addr],
                                    [nd EXCEPT !.ring = RB_reserve_write(@, qProd.size)])
                /\ qProd' = [qProd EXCEPT !.pc = "publish", !.node = addr, !.pos = 0]
                /\ qSizes' = Append(qSizes, qProd.size)
           ELSE /\ qProd' = ProdIdle
                /\ UNCHANGED <<qNodes, qSizes>>
    /\ UNCHANGED <<qWrite, qRead, qCons, produced, consumed, qFreedUnread>>
    /\ UNCHANGED <<ringVars, pureVars, logVars>>

\* Queue::reserve_write, line 124: write_node_.store(new_node).
QP_Publish ==
    /\ qProd.pc = "publish"
    /\ qWrite' = qProd.node
    /\ qProd' = [qProd EXCEPT !.pc = "memcpy"]
    /\ UNCHANGED <<qNodes, qRead, qCons, qSizes, produced, consumed, qFreedUnread>>
    /\ UNCHANGED <<ringVars, pureVars, logVars>>

\* The producer copies its message into the reserved bytes.  The bytes of the
\* stream are numbered 1, 2, ...
QP_Memcpy ==
    /\ qProd.pc = "memcpy"
    /\ qNodes' = [qNodes EXCEPT ![qProd.node].buf =
                      StoreBytes(@, qProd.pos, qProd.size, Len(produced) + 1)]
    /\ produced' = produced \o [i \in 1..qProd.size |-> Len(produced) + i]
    /\ qProd' = ProdIdle
    /\ UNCHANGED <<qWrite, qRead, qCons, qSizes, consumed, qFreedUnread>>
    /\ UNCHANGED <<ringVars, pureVars, logVars>>

\* The consumer calls read(size) for its next message.
QC_Call ==
    /\ qCons.pc = "idle"
    /\ qCons.k < MaxMsgs
    /\ qCons' = [qCons EXCEPT !.pc = "read",
                     !.size = IF qCons.k < Len(qSizes) THEN qSizes[qCons.k + 1] ELSE 1]
    /\ UNCHANGED <<qNodes, qWrite, qRead, qProd, qSizes, produced, consumed, qFreedUnread>>
    /\ UNCHANGED <<ringVars, pureVars, logVars>>

\* Queue::read, lines 200-205, and the consumer's copy of the bytes.
QC_Read ==
    /\ qCons.pc = "read"
    /\ LET nd == qNodes[qRead]
       IN  IF RB_read_ok(nd.ring, qCons.size)
           THEN qCons' = [qCons EXCEPT !.pc = "commit",
                              !.data = BytesAt(nd, RB_index(nd.ring, nd.ring.rp), qCons.size)]
           ELSE qCons' = [qCons EXCEPT !.pc = "next"]
    /\ UNCHANGED <<qNodes, qWrite, qRead, qProd, qSizes, produced, consumed, qFreedUnread>>
    /\ UNCHANGED <<ringVars, pureVars, logVars>>

\* Queue::read, lines 208-212: the load of current_read->next.
QC_Next ==
    /\ qCons.pc = "next"
    /\ IF qNodes[qRead].next = 0
       THEN qCons' = [qCons EXCEPT !.pc = "idle"]
       ELSE qCons' = [qCons EXCEPT !.pc = "switch", !.next = qNodes[qRead].next]
    /\ UNCHANGED <<qNodes, qWrite, qRead, qProd, qSizes, produced, consumed, qFreedUnread>>
    /\ UNCHANGED <<ringVars, pureVars, logVars>>

\* Queue::read, lines 215-227: an empty head is deleted and the read is made
\* on the next Node.
QC_Switch ==
    /\ qCons.pc = "switch"
    /\ LET nd == qNodes[qRead]
           nx == qNodes[qCons.next]
       IN  IF RB_available_read(nd.ring) = 0
           THEN /\ qRead' = qCons.next
                /\ qNodes' = [qNodes EXCEPT ![qRead].live = FALSE]
                /\ IF RB_read_ok(nx.ring, qCons.size)
                   THEN qCons' = [qCons EXCEPT !.pc = "commit", !.next = 0,
                                      !.data = BytesAt(nx, RB_index(nx.ring, nx.ring.rp), qCons.size)]
                   ELSE qCons' = [qCons EXCEPT !.pc = "idle", !.next = 0]
           ELSE /\ qCons' = [qCons EXCEPT !.pc = "idle", !.next = 0]
                /\ UNCHANGED <<qNodes, qRead>>
    /\ UNCHANGED <<qWrite, qProd, qSizes, produced, consumed, qFreedUnread>>
    /\ UNCHANGED <<ringVars, pureVars, logVars>>

\* Queue::commit_read, lines 235-236: the bytes read are committed.
QC_Commit ==
    /\ qCons.pc = "commit"
    /\ qNodes' = [qNodes EXCEPT ![qRead].ring = RB_commit_read(@, qCons.size)]
    /\ consumed' = consumed \o qCons.data
    /\ qCons' = [qCons EXCEPT !.pc = "drained", !.k = @ + 1, !.data = <<>>]
    /\ UNCHANGED <<qWrite, qRead, qProd, qSizes, produced, qFreedUnread>>
    /\ UNCHANGED <<ringVars, pureVars, logVars>>

\* Queue::commit_read, line 239: is the head Node empty?
QC_Drained ==
    /\ qCons.pc = "drained"
    /\ IF RB_available_read(qNodes[qRead].ring) = 0
       THEN qCons' = [qCons EXCEPT !.pc = "free"]
       ELSE qCons' = [qCons EXCEPT !.pc = "idle"]
    /\ UNCHANGED <<qNodes, qWrite, qRead, qProd, qSizes, produced, consumed, qFreedUnread>>
    /\ UNCHANGED <<ringVars, pureVars, logVars>>

\* Queue::commit_read, a mutation: the head is deleted but read_node_ keeps
\* pointing to it.
QC_Free_noswitch ==
    /\ qCons.pc = "free"
    /\ IF qNodes[qRead].next # 0
       THEN qNodes' = [qNodes EXCEPT ![qRead].live = FALSE]
       ELSE UNCHANGED qNodes
    /\ qCons' = [qCons EXCEPT !.pc = "idle"]
    /\ UNCHANGED <<qWrite, qRead, qProd, qSizes, produced, consumed, qFreedUnread>>
    /\ UNCHANGED <<ringVars, pureVars, logVars>>

\* Queue::commit_read, lines 240-247: with a next Node linked, the head is
\* deleted.
QC_Free ==
    /\ qCons.pc = "free"
    /\ IF qNodes[qRead].next # 0
       THEN /\ qRead' = qNodes[qRead].next
            /\ qNodes' = [qNodes EXCEPT ![qRead].live = FALSE]
            /\ qFreedUnread' = qFreedUnread + RB_available_read(qNodes[qRead].ring)
       ELSE UNCHANGED <<qNodes, qRead, qFreedUnread>>
    /\ qCons' = [qCons EXCEPT !.pc = "idle"]
    /\ UNCHANGED <<qWrite, qProd, qSizes, produced, consumed>>
    /\ UNCHANGED <<ringVars, pureVars, logVars>>

QueueNext ==
    \/ QP_Call \/ QP_Reserve \/ QP_Link \/ QP_Publish \/ QP_Memcpy
    \/ QC_Call \/ QC_Read \/ QC_Next \/ QC_Switch \/ QC_Commit \/ QC_Drained \/ QC_Free

QueueSpecInit ==
    RingIdle /\ QueueInit /\ LogInit /\ plan = NoPlan /\ SeqIdle /\ CodecIdle /\ IoIdle

SpecQueue == QueueSpecInit /\ [][QueueNext]_vars

(***************************************************************************)
(* Claims about Queue, checked under SpecQueue                             *)
(***************************************************************************)
IsPrefix(a, b) == Len(a) <= Len(b) /\ \A i \in 1..Len(a) : a[i] = b[i]

\* C1: the bytes the consumer has read and committed are, in order, the
\* bytes the producer wrote: at every moment a prefix of them, with no byte
\* lost, duplicated or reordered.
C1_SameBytes == IsPrefix(consumed, produced)

(***************************************************************************)
(* Spec: Logger.h and Backend.h.                                           *)
(*                                                                         *)
(* A producer thread runs Logger::log_impl step by step; its Queue is the  *)
(* one Backend::allocate_queue_for_thread makes on its first log call, and *)
(* Backend::mark_queue_abandoned is called when the thread exits.  The     *)
(* consumer thread runs Backend::consume_loop step by step.  Each call of  *)
(* a Queue member function is one step, and so is each section run under   *)
(* m_writer_mutex.                                                         *)
(*                                                                         *)
(* The bytes of an encoded record are words: the record [p, n, ts, args]   *)
(* (producer, call number, timestamp, size of the arguments) and the       *)
(* offset k of the unit in it.  0 is a unit nobody has written.            *)
(***************************************************************************)
Range(seq) == {seq[i] : i \in 1..Len(seq)}

\* Logger::encode: unit k of the encoding of record r
Word(r, k) == r.p * 10000 + r.n * 1000 + r.ts * 100 + r.args * 10 + k + 1

\* reinterpret_cast<const Metadata*>: what a unit says when it is read
WordK(c) == (c % 10) - 1
WordRec(c) == [p |-> c \div 10000, n |-> (c \div 1000) % 10,
               ts |-> (c \div 100) % 10, args |-> (c \div 10) % 10]

\* Logger::encode: the units of record r, metadata first
RecordCells(r) == [k \in 1..(MetaSize + r.args) |-> Word(r, k - 1)]

\* memcpy of cells into a buffer at pos
StoreCells(buf, pos, cells) ==
    [i \in DOMAIN buf |->
        IF i >= pos /\ i < pos + Len(cells) THEN cells[i - pos + 1] ELSE buf[i]]

\* the n units a pointer points to
CellsAt(q, ptr, n) == [k \in 1..n |-> q.nodes[ptr.node].buf[ptr.pos + k - 1]]

\* meta->timestamp: a unit that is not the first unit of a record's
\* metadata holds other bytes there, read as some number
Timestamps(c) ==
    IF c = 0 THEN {0}
    ELSE IF WordK(c) = 0 THEN {WordRec(c).ts}
    ELSE {0, UINT64_MAX}

\* metadata.args_size and metadata.decoder of a copied Metadata: "null" is a
\* null decoder with args_size 0 (zeroed memory), "garbage" bytes that were
\* never an args_size and a decoder
DecoderOf(metadata) ==
    IF metadata[MetaSize] = 0 THEN "null"
    ELSE IF WordK(metadata[MetaSize]) = MetaSize - 1 THEN "decoder"
    ELSE "garbage"

ArgsSizeOf(metadata) ==
    IF DecoderOf(metadata) = "decoder" THEN WordRec(metadata[MetaSize]).args ELSE 0

\* The line the consumer formats from a Metadata and the args it read.
Line(metadata, args) == [meta |-> metadata, args |-> args]

\* The line of record r when all of it is read after it was written.
LineOf(r) == Line(SubSeq(RecordCells(r), 1, MetaSize),
                  SubSeq(RecordCells(r), MetaSize + 1, MetaSize + r.args))

\* ---- the registry ------------------------------------------------------
\* The wrappers some shared_ptr still points to.
Referenced(cur, snap, pend) == Range(cur) \cup Range(snap) \cup Range(pend)

\* The registry after a section under m_writer_mutex: cur and snap are the
\* vectors the two lists point to, same whether they are one vector.  A
\* QueueWrapper no vector and no pending entry points to any more is
\* destroyed with its Queue (shared_ptr reference counts).
SetRegistry(cur, snap, same, pend, w, qs) ==
    /\ m_current_list' = cur
    /\ m_snapshot_list' = snap
    /\ sameVector' = same
    /\ m_pending_deletion' = pend
    /\ wrappers' = [p \in Producers |->
          IF w[p].state = "live" /\ p \notin Referenced(cur, snap, pend)
          THEN [w[p] EXCEPT !.state = "destroyed"] ELSE w[p]]
    /\ queues' = [p \in Producers |->
          IF w[p].state = "live" /\ p \notin Referenced(cur, snap, pend)
          THEN NoQueue ELSE qs[p]]

\* ---- the producer threads ----------------------------------------------
\* what the observer notes when a producer takes a step of a log call
Noted(o) == [o EXCEPT !.logAfterStart = @ \/ o.started,
                      !.writeAfterStop = @ \/ o.stopCalled]

\* the log calls made so far
RECURSIVE CallsOf(_)
CallsOf(p) == IF p = 0 THEN 0 ELSE prod[p].n + CallsOf(p - 1)
LogCalls == CallsOf(NumProducers)

CurrentRecord(p) == [p |-> p, n |-> prod[p].n, ts |-> prod[p].ts, args |-> prod[p].args]

\* Backend::allocate_queue_for_thread, a mutation: the wrapper is pushed into
\* the vector m_current_list points to, without a copy.
P_Allocate_inplace(p) ==
    /\ prod[p].pc = "idle" /\ ~prod[p].queue /\ ~prod[p].exited
    /\ LogCalls < plan.logs
    /\ SetRegistry(Append(m_current_list, p),
                   IF sameVector THEN Append(m_snapshot_list, p) ELSE m_snapshot_list,
                   sameVector, m_pending_deletion,
                   [wrappers EXCEPT ![p] = [state |-> "live", abandoned |-> FALSE]],
                   [queues EXCEPT ![p] = QueueNew(InitialCapacity)])
    /\ m_dirty' = TRUE
    /\ prod' = [prod EXCEPT ![p].queue = TRUE]
    /\ obs' = Noted(obs)
    /\ UNCHANGED <<running_, dropped_messages_, consumer_thread_, cons, counter,
                   output_buffer_, file, ctl, liveConsumers>>
    /\ UNCHANGED <<ringVars, queueVars, pureVars, plan>>

\* Backend::allocate_queue_for_thread, before the thread's first log call
P_Allocate(p) ==
    /\ prod[p].pc = "idle" /\ ~prod[p].queue /\ ~prod[p].exited
    /\ LogCalls < plan.logs
    /\ SetRegistry(Append(m_current_list, p), m_snapshot_list, FALSE,
                   m_pending_deletion,
                   [wrappers EXCEPT ![p] = [state |-> "live", abandoned |-> FALSE]],
                   [queues EXCEPT ![p] = QueueNew(InitialCapacity)])
    /\ m_dirty' = TRUE
    /\ prod' = [prod EXCEPT ![p].queue = TRUE]
    /\ obs' = Noted(obs)
    /\ UNCHANGED <<running_, dropped_messages_, consumer_thread_, cons, counter,
                   output_buffer_, file, ctl, liveConsumers>>
    /\ UNCHANGED <<ringVars, queueVars, pureVars, plan>>

\* Logger::get_thread_queue on the thread's first log call: a thread_local
\* Queue(4096), made without a call of the backend; no list of the registry
\* holds it
P_ThreadLocal(p) ==
    /\ prod[p].pc = "idle" /\ ~prod[p].queue /\ ~prod[p].exited
    /\ plan.local = 1
    /\ LogCalls < plan.logs
    /\ queues' = [queues EXCEPT ![p] = QueueNew(InitialCapacity)]
    /\ prod' = [prod EXCEPT ![p].queue = TRUE]
    /\ obs' = Noted(obs)
    /\ UNCHANGED <<registryVars, running_, dropped_messages_, consumer_thread_,
                   cons, counter, output_buffer_, file, ctl, liveConsumers>>
    /\ UNCHANGED <<ringVars, queueVars, pureVars, plan>>

\* log_impl up to the reservation: timestamp = get_timestamp_ns() (system_clock
\* is not a steady clock: any timestamp can come back), total_size, and
\* buffer = queue.reserve_write(total_size); a nullptr ends the call, and
\* nothing is counted
P_Reserve(p) ==
    /\ prod[p].pc = "idle" /\ prod[p].queue /\ ~prod[p].exited
    /\ wrappers[p].state # "destroyed"
    /\ LogCalls < plan.logs
    /\ \E ts \in 1..MaxClock, a \in ArgSizes :
          LET res == Q_reserve_write(queues[p], MetaSize + a)
              noted == [Noted(obs) EXCEPT !.steady = @ /\ ts >= prod[p].ts]
          IN  IF res.ptr = NullPtr
              THEN /\ prod' = [prod EXCEPT ![p].n = @ + 1, ![p].ts = ts, ![p].args = a]
                   /\ obs' = [noted EXCEPT !.failed = @ + 1]
                   /\ UNCHANGED queues
              ELSE /\ prod' = [prod EXCEPT ![p].pc = "encode", ![p].n = @ + 1,
                                  ![p].ts = ts, ![p].args = a, ![p].ptr = res.ptr]
                   /\ obs' = noted
                   /\ queues' = [queues EXCEPT ![p] = res.q]
    /\ UNCHANGED <<registryVars, running_, dropped_messages_, consumer_thread_,
                   cons, counter, output_buffer_, file, ctl, liveConsumers>>
    /\ UNCHANGED <<ringVars, queueVars, pureVars, plan>>

\* log_impl after the reservation: encode<Fmt, Level>(buffer, timestamp,
\* args...), then queue.commit_write(total_size) and the call returns.  Queue
\* and RingBytes have no commit position to advance: reserve_write has
\* stored write_pos_ already.
P_Encode(p) ==
    /\ prod[p].pc = "encode"
    /\ wrappers[p].state # "destroyed"
    /\ queues' = [queues EXCEPT ![p].nodes[prod[p].ptr.node].buf =
                     StoreCells(@, prod[p].ptr.pos, RecordCells(CurrentRecord(p)))]
    /\ prod' = [prod EXCEPT ![p].pc = "idle", ![p].ptr = NullPtr]
    /\ obs' = [Noted(obs) EXCEPT !.committed = @ \cup {CurrentRecord(p)}]
    /\ UNCHANGED <<registryVars, running_, dropped_messages_, consumer_thread_,
                   cons, counter, output_buffer_, file, ctl, liveConsumers>>
    /\ UNCHANGED <<ringVars, queueVars, pureVars, plan>>

\* What a log call makes of the Queue* of a Queue that was destroyed: the
\* thread crashes, or its writes land in freed memory and the call returns.
DanglingOutcomes == {"crashed", "wrote freed memory"}

\* log_impl on a Queue the backend has destroyed while the thread still
\* holds its Queue* (a call that starts, or one that had reserved)
P_Dangling(p) ==
    /\ prod[p].queue /\ ~prod[p].exited
    /\ wrappers[p].state = "destroyed"
    /\ \/ prod[p].pc = "encode"
       \/ prod[p].pc = "idle" /\ LogCalls < plan.logs
    /\ \E outcome \in DanglingOutcomes : prod' = [prod EXCEPT ![p].pc = outcome]
    /\ UNCHANGED <<queues, registryVars, running_, dropped_messages_,
                   consumer_thread_, cons, counter, output_buffer_, file, ctl,
                   liveConsumers, obs>>
    /\ UNCHANGED <<ringVars, queueVars, pureVars, plan>>

\* Backend::mark_queue_abandoned, when the thread exits
P_Exit(p) ==
    /\ prod[p].pc = "idle" /\ prod[p].queue /\ ~prod[p].exited
    /\ Cardinality({q \in Producers : prod[q].exited}) < plan.exits
    /\ prod' = [prod EXCEPT ![p].exited = TRUE]
    /\ IF p \in Range(m_current_list)
       THEN /\ wrappers' = [wrappers EXCEPT ![p].abandoned = TRUE]
            /\ m_dirty' = TRUE
       ELSE UNCHANGED <<wrappers, m_dirty>>
    /\ UNCHANGED <<queues, m_current_list, m_snapshot_list, sameVector,
                   m_pending_deletion, running_, dropped_messages_,
                   consumer_thread_, cons, counter, output_buffer_, file, ctl,
                   liveConsumers, obs>>
    /\ UNCHANGED <<ringVars, queueVars, pureVars, plan>>

\* ---- the backend -------------------------------------------------------
\* StringRingBuffer::flush_to_sinker: the file after the buffered lines were
\* written to the Sinker; the buffer is empty afterwards
Flushed(f, buffered) == f \o buffered

\* process_one_log: meta->timestamp < min_timestamp
EarlierThan_any(timestamp, min_timestamp) == TRUE
EarlierThan_orEqual(timestamp, min_timestamp) == timestamp <= min_timestamp
EarlierThan(timestamp, min_timestamp) == timestamp < min_timestamp

\* start(): if (running_.exchange(true)) return;
StartGuard_none(was_running) == FALSE
StartGuard(was_running) == was_running

\* Backend::reclaim_abandoned_queues, a mutation: the store to m_dirty after
\* the wrappers were taken out of m_current_list is missing.
Reclaim_nodirty(qs) ==
    LET to_reclaim == SelectSeq(m_current_list,
                        LAMBDA w : wrappers[w].abandoned /\ Q_is_empty(qs[w]))
        kept == SelectSeq(m_current_list, LAMBDA w : w \notin Range(to_reclaim))
    IN  /\ UNCHANGED m_dirty
        /\ IF to_reclaim = <<>>
           THEN SetRegistry(m_current_list, m_snapshot_list, sameVector, <<>>,
                            wrappers, qs)
           ELSE SetRegistry(kept, m_snapshot_list, FALSE, to_reclaim, wrappers, qs)

\* Backend::reclaim_abandoned_queues, under m_writer_mutex
Reclaim(qs) ==
    LET to_reclaim == SelectSeq(m_current_list,
                        LAMBDA w : wrappers[w].abandoned /\ Q_is_empty(qs[w]))
        kept == SelectSeq(m_current_list, LAMBDA w : w \notin Range(to_reclaim))
    IN  IF to_reclaim = <<>>
        THEN /\ SetRegistry(m_current_list, m_snapshot_list, sameVector, <<>>,
                            wrappers, qs)
             /\ UNCHANGED m_dirty
        ELSE /\ SetRegistry(kept, m_snapshot_list, FALSE, to_reclaim, wrappers, qs)
             /\ m_dirty' = TRUE

StartScan(c, final) == [c EXCEPT !.pc = "scan", !.min_timestamp = UINT64_MAX,
                                 !.selected_queue = 0, !.ptr = NullPtr,
                                 !.metadata = <<>>, !.final = final]

\* consume_loop: while (running_.load()), then if (m_dirty.load())
\* sync_snapshot_list(); after the loop the same check before the final drain
C_Loop ==
    /\ cons.pc = "loop"
    /\ IF m_dirty
       THEN /\ SetRegistry(m_current_list, m_current_list, TRUE,
                           m_pending_deletion, wrappers, queues)
            /\ m_dirty' = FALSE
       ELSE UNCHANGED <<queues, registryVars>>
    /\ cons' = StartScan(cons, ~running_)
    /\ UNCHANGED <<prod, running_, dropped_messages_, consumer_thread_, counter,
                   output_buffer_, file, ctl, liveConsumers, obs>>
    /\ UNCHANGED <<ringVars, queueVars, pureVars, plan>>

\* process_one_log: the loop over *m_snapshot_list from its i-th wrapper on.
\* The results it can end with: the queues after its read() calls, the
\* selection, and whether it touched a destroyed wrapper.
RECURSIVE ScanFrom(_, _, _, _)
ScanFrom(i, qs, min_timestamp, selected_queue) ==
    LET w == m_snapshot_list[i]
        res == Q_read(qs[w], MetaSize)
        read == [qs EXCEPT ![w] = res.q]
    IN  IF i > Len(m_snapshot_list)
        THEN {[queues |-> qs, min_timestamp |-> min_timestamp,
               selected_queue |-> selected_queue, dangling |-> FALSE]}
        ELSE IF wrappers[w].state # "live"
        THEN {[queues |-> qs, min_timestamp |-> min_timestamp,
               selected_queue |-> selected_queue, dangling |-> TRUE]}
        ELSE IF wrappers[w].abandoned /\ Q_is_empty(qs[w])
        THEN ScanFrom(i + 1, qs, min_timestamp, selected_queue)
        ELSE IF res.ptr = NullPtr
        THEN ScanFrom(i + 1, read, min_timestamp, selected_queue)
        ELSE UNION {IF EarlierThan(timestamp, min_timestamp)
                    THEN ScanFrom(i + 1, read, timestamp, w)
                    ELSE ScanFrom(i + 1, read, min_timestamp, selected_queue) :
                    timestamp \in Timestamps(CellsAt(res.q, res.ptr, MetaSize)[1])}

\* consume_loop after process_one_log returned: in the loop, ++counter and
\* the periodic flush_to_disk and reclaim_abandoned_queues; in the final
\* drain, while (process_one_log())
Iterated(processed, qs, buffered, f) ==
    IF cons.final
    THEN /\ cons' = IF processed THEN StartScan(cons, TRUE)
                    ELSE [cons EXCEPT !.pc = "final_reclaim"]
         /\ queues' = qs
         /\ output_buffer_' = buffered
         /\ file' = f
         /\ UNCHANGED <<counter, registryVars>>
    ELSE /\ cons' = [cons EXCEPT !.pc = "loop"]
         /\ IF counter + 1 >= FlushEvery
            THEN /\ counter' = 0
                 /\ file' = Flushed(f, buffered)
                 /\ output_buffer_' = <<>>
                 /\ Reclaim(qs)
            ELSE /\ counter' = counter + 1
                 /\ queues' = qs
                 /\ output_buffer_' = buffered
                 /\ file' = f
                 /\ UNCHANGED registryVars

\* process_one_log: the loop over the heads of the queues of the snapshot
C_Scan ==
    /\ cons.pc = "scan"
    /\ \E res \in ScanFrom(1, queues, UINT64_MAX, 0) :
          /\ queues' = res.queues
          /\ cons' = IF res.dangling THEN [cons EXCEPT !.pc = "crashed"]
                     ELSE [cons EXCEPT !.pc = "select",
                                       !.min_timestamp = res.min_timestamp,
                                       !.selected_queue = res.selected_queue]
    /\ UNCHANGED <<prod, registryVars, running_, dropped_messages_,
                   consumer_thread_, counter, output_buffer_, file, ctl,
                   liveConsumers, obs>>
    /\ UNCHANGED <<ringVars, queueVars, pureVars, plan>>

\* process_one_log after the loop: re-read the selected queue, then
\* process_log_from_queue copies the Metadata and commits its bytes
C_Select ==
    /\ cons.pc = "select"
    /\ LET w == cons.selected_queue
           res == Q_read(queues[w], MetaSize)
       IN  IF w = 0
           THEN Iterated(FALSE, queues, output_buffer_, file)
           ELSE IF res.ptr = NullPtr
           THEN Iterated(FALSE, [queues EXCEPT ![w] = res.q], output_buffer_, file)
           ELSE /\ cons' = [cons EXCEPT !.pc = "args", !.ptr = res.ptr,
                               !.metadata = CellsAt(res.q, res.ptr, MetaSize)]
                /\ queues' = [queues EXCEPT ![w] = Q_commit_read(res.q, MetaSize)]
                /\ UNCHANGED <<registryVars, counter, output_buffer_, file>>
    /\ UNCHANGED <<prod, running_, dropped_messages_, consumer_thread_, ctl,
                   liveConsumers, obs>>
    /\ UNCHANGED <<ringVars, queueVars, pureVars, plan>>

\* get_writer(&sinker_) and the appends of one line: the buffered lines and
\* the file afterwards
Emitted(buffered, f, line) ==
    IF Len(buffered) >= OutputLines
    THEN [buffered |-> <<line>>, file |-> Flushed(f, buffered)]
    ELSE [buffered |-> Append(buffered, line), file |-> f]

\* What bytes that never were an args_size and a decoder make of the rest of
\* process_log_from_queue: the call through the decoder pointer crashes, the
\* read of args_size bytes fails, or both fields happen to be zero.
GarbageOutcomes == {"crash", "read fails", "null"}

\* process_log_from_queue after the commit of the Metadata: read the args,
\* format the line into output_buffer_, commit the args
C_Process ==
    /\ cons.pc = "args"
    /\ LET w == cons.selected_queue
           size == ArgsSizeOf(cons.metadata)
           res == Q_read(queues[w], size)
           noArgs == Emitted(output_buffer_, file, Line(cons.metadata, <<>>))
           withArgs == Emitted(output_buffer_, file,
                               Line(cons.metadata, CellsAt(res.q, res.ptr, size)))
       IN  \E outcome \in IF DecoderOf(cons.metadata) = "garbage"
                          THEN GarbageOutcomes ELSE {DecoderOf(cons.metadata)} :
              IF outcome = "crash"
              THEN /\ cons' = [cons EXCEPT !.pc = "crashed"]
                   /\ UNCHANGED <<queues, registryVars, counter, output_buffer_, file>>
              ELSE IF outcome = "read fails"
              THEN Iterated(TRUE, queues, output_buffer_, file)
              ELSE IF outcome = "null" \/ size = 0
              THEN Iterated(TRUE, queues, noArgs.buffered, noArgs.file)
              ELSE IF res.ptr = NullPtr
              THEN Iterated(TRUE, [queues EXCEPT ![w] = res.q], output_buffer_, file)
              ELSE Iterated(TRUE, [queues EXCEPT ![w] = Q_commit_read(res.q, size)],
                            withArgs.buffered, withArgs.file)
    /\ UNCHANGED <<prod, running_, dropped_messages_, consumer_thread_, ctl,
                   liveConsumers, obs>>
    /\ UNCHANGED <<ringVars, queueVars, pureVars, plan>>

\* consume_loop: the final reclaim and the final flush; the thread ends
C_Final ==
    /\ cons.pc = "final_reclaim"
    /\ Reclaim(queues)
    /\ file' = Flushed(file, output_buffer_)
    /\ output_buffer_' = <<>>
    /\ cons' = [cons EXCEPT !.pc = "done"]
    /\ UNCHANGED <<prod, running_, dropped_messages_, consumer_thread_, counter,
                   ctl, liveConsumers, obs>>
    /\ UNCHANGED <<ringVars, queueVars, pureVars, plan>>

\* ---- the thread that calls start() and stop() --------------------------
\* Backend::start: running_.exchange(true), return if it was running
Ctl_Start ==
    /\ ctl.pc = "idle" /\ Len(ctl.hist) < plan.calls
    /\ running_' = TRUE
    /\ IF StartGuard(running_)
       THEN /\ ctl' = [pc |-> "idle", hist |-> Append(ctl.hist, "start: was running")]
            /\ UNCHANGED obs
       ELSE /\ ctl' = [pc |-> "start_spawn", hist |-> Append(ctl.hist, "start")]
            /\ obs' = [obs EXCEPT !.started = TRUE, !.stopCalled = FALSE]
    /\ UNCHANGED <<prod, queues, registryVars, dropped_messages_,
                   consumer_thread_, cons, counter, output_buffer_, file,
                   liveConsumers>>
    /\ UNCHANGED <<ringVars, queueVars, pureVars, plan>>

\* Backend::start: consumer_thread_ = std::thread(...).  The new thread runs
\* before the move assignment, which calls std::terminate when
\* consumer_thread_ is still joinable.
Ctl_Spawn ==
    /\ ctl.pc = "start_spawn"
    /\ liveConsumers' = liveConsumers + 1
    /\ IF consumer_thread_
       THEN /\ ctl' = [ctl EXCEPT !.pc = "terminated"]
            /\ UNCHANGED <<consumer_thread_, cons>>
       ELSE /\ ctl' = [ctl EXCEPT !.pc = "idle"]
            /\ consumer_thread_' = TRUE
            /\ cons' = [ConsNone EXCEPT !.pc = "loop"]
    /\ UNCHANGED <<prod, queues, registryVars, running_, dropped_messages_,
                   counter, output_buffer_, file, obs>>
    /\ UNCHANGED <<ringVars, queueVars, pureVars, plan>>

\* Backend::stop: running_.exchange(false), return if it was not running
Ctl_Stop ==
    /\ ctl.pc = "idle" /\ Len(ctl.hist) < plan.calls
    /\ running_' = FALSE
    /\ IF ~running_
       THEN /\ ctl' = [pc |-> "idle", hist |-> Append(ctl.hist, "stop: was stopped")]
            /\ UNCHANGED obs
       ELSE /\ ctl' = [pc |-> "stop_join", hist |-> Append(ctl.hist, "stop")]
            /\ obs' = [obs EXCEPT !.stopCalled = TRUE, !.writeAfterStop = FALSE,
                                  !.atStop = obs.committed]
    /\ UNCHANGED <<prod, queues, registryVars, dropped_messages_,
                   consumer_thread_, cons, counter, output_buffer_, file,
                   liveConsumers>>
    /\ UNCHANGED <<ringVars, queueVars, pureVars, plan>>

\* Backend::stop: if (consumer_thread_.joinable()) consumer_thread_.join()
Ctl_Join ==
    /\ ctl.pc = "stop_join"
    /\ IF consumer_thread_
       THEN /\ cons.pc = "done"
            /\ consumer_thread_' = FALSE
            /\ cons' = ConsNone
            /\ liveConsumers' = liveConsumers - 1
       ELSE UNCHANGED <<consumer_thread_, cons, liveConsumers>>
    /\ ctl' = [ctl EXCEPT !.pc = "stop_flush"]
    /\ UNCHANGED <<prod, queues, registryVars, running_, dropped_messages_,
                   counter, output_buffer_, file, obs>>
    /\ UNCHANGED <<ringVars, queueVars, pureVars, plan>>

\* Backend::stop: flush_to_disk(), and the call returns, to its caller or
\* into ~Backend
Ctl_Flush ==
    /\ ctl.pc = "stop_flush"
    /\ file' = Flushed(file, output_buffer_)
    /\ output_buffer_' = <<>>
    /\ ctl' = [ctl EXCEPT !.pc = IF ctl.hist[Len(ctl.hist)] = "~Backend"
                                 THEN "reclaim_all" ELSE "idle"]
    /\ UNCHANGED <<prod, queues, registryVars, running_, dropped_messages_,
                   consumer_thread_, cons, counter, liveConsumers, obs>>
    /\ UNCHANGED <<ringVars, queueVars, pureVars, plan>>

\* Backend::~Backend: stop(), which returns at once when the backend is not
\* running
Ctl_Destroy ==
    /\ ctl.pc = "idle" /\ Len(ctl.hist) < plan.calls
    /\ plan.dtor = 1
    /\ running_' = FALSE
    /\ ctl' = [pc |-> IF running_ THEN "stop_join" ELSE "reclaim_all",
               hist |-> Append(ctl.hist, "~Backend")]
    /\ UNCHANGED <<prod, queues, registryVars, dropped_messages_,
                   consumer_thread_, cons, counter, output_buffer_, file,
                   liveConsumers, obs>>
    /\ UNCHANGED <<ringVars, queueVars, pureVars, plan>>

\* Backend::~Backend: reclaim_all_queues() gives both lists a new empty
\* vector and clears m_pending_deletion
Ctl_ReclaimAll ==
    /\ ctl.pc = "reclaim_all"
    /\ SetRegistry(<<>>, <<>>, FALSE, <<>>, wrappers, queues)
    /\ ctl' = [ctl EXCEPT !.pc = "destroyed"]
    /\ UNCHANGED <<prod, m_dirty, running_, dropped_messages_, consumer_thread_,
                   cons, counter, output_buffer_, file, liveConsumers, obs>>
    /\ UNCHANGED <<ringVars, queueVars, pureVars, plan>>

LogNext ==
    \/ \E p \in Producers :
          \/ P_Allocate(p) \/ P_ThreadLocal(p) \/ P_Reserve(p) \/ P_Encode(p)
          \/ P_Dangling(p) \/ P_Exit(p)
    \/ C_Loop \/ C_Scan \/ C_Select \/ C_Process \/ C_Final
    \/ Ctl_Start \/ Ctl_Spawn \/ Ctl_Stop \/ Ctl_Join \/ Ctl_Flush
    \/ Ctl_Destroy \/ Ctl_ReclaimAll

LogSpecInit ==
    RingIdle /\ QueueInit /\ LogInit /\ plan \in Plans /\ SeqIdle /\ CodecIdle /\ IoIdle

Spec == LogSpecInit /\ [][LogNext]_vars

(***************************************************************************)
(* Claims about logging, checked under Spec                                *)
(***************************************************************************)
\* The lines the consumer has formatted so far, in order.
AllLines == file \o output_buffer_

\* A line carries a record when its Metadata starts with the first unit of
\* that record.
Carries(line) == line.meta[1] # 0 /\ WordK(line.meta[1]) = 0
RecordIn(line) == WordRec(line.meta[1])

\* The producer is between its reserve_write and the end of its log call.
InFlight(p) == prod[p].pc = "encode"

\* The last call of start() or stop() has returned and was a stop() that
\* found the backend running.
StopReturned ==
    ctl.pc = "idle" /\ ctl.hist # <<>> /\ ctl.hist[Len(ctl.hist)] = "stop"

\* C2: a record becomes readable only after its producer has written and
\* committed it: the consumer never copies the Metadata at the place a
\* producer has reserved and whose log call has not yet returned.
C2_ReadAfterCommit ==
    \A p \in Producers :
        ~(cons.pc = "args" /\ cons.selected_queue = p /\ InFlight(p)
          /\ cons.ptr = prod[p].ptr)

\* C3: after a stop() that found the backend running has returned, every
\* record whose log call had returned when stop() was called has its line
\* in the file.
C3_CommittedInFile ==
    StopReturned => \A r \in obs.atStop : LineOf(r) \in Range(file)

\* C4: every failed reservation has incremented the dropped counter, once.
C4_DropsCounted == dropped_messages_ = obs.failed

\* C5: the lines that carry the records of one producer come out in the
\* order of its log calls, no record twice.
C5_CallOrder ==
    \A i, j \in 1..Len(AllLines) :
        (i < j /\ Carries(AllLines[i]) /\ Carries(AllLines[j])
           /\ RecordIn(AllLines[i]).p = RecordIn(AllLines[j]).p)
        => RecordIn(AllLines[i]).n < RecordIn(AllLines[j]).n

\* The lines that carry records are in non-decreasing timestamp order.
TimestampOrder ==
    \A i, j \in 1..Len(AllLines) :
        (i < j /\ Carries(AllLines[i]) /\ Carries(AllLines[j]))
        => RecordIn(AllLines[i]).ts <= RecordIn(AllLines[j]).ts

\* C6 as stated: across producers the records come out in non-decreasing
\* timestamp order, whatever the interleaving of producers and consumer.
C6_AsStated == TimestampOrder

\* C6: when every log call has returned before the first start() and none is
\* made after it, and no producer's clock went backwards between its calls,
\* the records come out in non-decreasing timestamp order.
C6_QuiescentMerge == (~obs.logAfterStart /\ obs.steady) => TimestampOrder

\* Two producers logged before start(), and the consumer has merged their
\* records by timestamp: the later queue of the snapshot came out first.
C6_Witness ==
    /\ ~obs.logAfterStart /\ obs.steady
    /\ Len(AllLines) = 2
    /\ Carries(AllLines[1]) /\ Carries(AllLines[2])
    /\ RecordIn(AllLines[1]).p = 2 /\ RecordIn(AllLines[2]).p = 1
    /\ RecordIn(AllLines[1]).ts < RecordIn(AllLines[2]).ts
    /\ m_snapshot_list = <<1, 2>>

\* What start() and stop() can change in the backend and its threads.
BackendState == <<queues, registryVars, running_, dropped_messages_,
                  consumer_thread_, cons, counter, output_buffer_, file,
                  liveConsumers>>
Called(name) ==
    /\ Len(ctl'.hist) = Len(ctl.hist) + 1
    /\ ctl'.hist[Len(ctl'.hist)] \in {name, name \o ": was running",
                                       name \o ": was stopped"}

\* C9: a start() while running changes nothing, a stop() while stopped
\* changes nothing, and there is never more than one consumer thread that
\* was started and not yet joined.
C9_Idempotent ==
    [][/\ (Called("start") /\ running_) => (ctl'.pc = "idle" /\ UNCHANGED BackendState)
       /\ (Called("stop") /\ ~running_) => (ctl'.pc = "idle" /\ UNCHANGED BackendState)
       /\ liveConsumers' <= 1]_vars

\* stop() was called on a stopped backend, start() twice, and one consumer
\* thread runs.
C9_Witness ==
    /\ "start: was running" \in Range(ctl.hist)
    /\ "stop: was stopped" \in Range(ctl.hist)
    /\ liveConsumers = 1 /\ cons.pc \notin {"none", "done"}

\* C10: when a stop() that found the backend running returns, no producer
\* has taken a step of a log call since it was called and none is inside a
\* log call, every queue is empty and so is the output buffer.
C10_EmptyAfterStop ==
    (StopReturned /\ ~obs.writeAfterStop /\ \A p \in Producers : ~InFlight(p))
    => /\ \A p \in Producers : wrappers[p].state = "live" => Q_is_empty(queues[p])
       /\ output_buffer_ = <<>>

\* A step of the consumer thread.
(***************************************************************************)
(* SpecSeq: one Queue used by one thread, call after call, as the cases of *)
(* QueueTest do.  The Queue is made with one of the capacities SeqInitial  *)
(* (the tests use 32, 64, 100, 128, 512; Logger.h and Backend.h 4096), and *)
(* Queue::MAX_NODE_CAPACITY has the scale SeqMaxNode.                      *)
(***************************************************************************)
SeqMaxNode == 16
SeqInitial == {1, 2, 3, 4, SeqMaxNode}
SeqSizes == 1..(SeqMaxNode + 1)
MaxSeqCalls == 4

\* Queue::Queue(initial_capacity)
SeqInit ==
    /\ seqQueue \in {QueueNew(c) : c \in SeqInitial}
    /\ seqLast = NoSeqCall

SeqSpecInit == RingIdle /\ QueueInit /\ LogInit /\ plan = NoPlan /\ SeqInit /\ CodecIdle /\ IoIdle

\* queue.reserve_write(n)
SeqReserve(n) ==
    /\ seqLast.calls < MaxSeqCalls
    /\ LET res == Q_reserve_write_to(seqQueue, n, SeqMaxNode)
       IN  /\ seqQueue' = res.q
           /\ seqLast' = [op |-> "reserve", n |-> n, ok |-> res.ptr # NullPtr,
                          allocated |-> Q_allocates(seqQueue, n, SeqMaxNode),
                          calls |-> seqLast.calls + 1, before |-> seqQueue]
    /\ UNCHANGED <<codec, fmt, sink, ringVars, queueVars, logVars,
                   life, out>>

\* queue.read(n)
SeqRead(n) ==
    /\ seqLast.calls < MaxSeqCalls
    /\ LET res == Q_read(seqQueue, n)
       IN  /\ seqQueue' = res.q
           /\ seqLast' = [op |-> "read", n |-> n, ok |-> res.ptr # NullPtr,
                          allocated |-> FALSE,
                          calls |-> seqLast.calls + 1, before |-> seqQueue]
    /\ UNCHANGED <<codec, fmt, sink, ringVars, queueVars, logVars,
                   life, out>>

\* queue.commit_read(n) of the bytes the read before it returned
SeqCommitRead ==
    /\ seqLast.calls < MaxSeqCalls
    /\ seqLast.op = "read" /\ seqLast.ok
    /\ seqQueue' = Q_commit_read(seqQueue, seqLast.n)
    /\ seqLast' = [op |-> "commit_read", n |-> seqLast.n, ok |-> TRUE,
                   allocated |-> FALSE,
                   calls |-> seqLast.calls + 1, before |-> seqQueue]
    /\ UNCHANGED <<codec, fmt, sink, ringVars, queueVars, logVars,
                   life, out>>

SeqNext ==
    \/ \E n \in SeqSizes : SeqReserve(n)
    \/ \E n \in 1..SeqMaxNode : SeqRead(n)
    \/ SeqCommitRead

SpecSeq == SeqSpecInit /\ [][SeqNext]_vars

(***************************************************************************)
(* SpecCodec: one argument list, encoded into a buffer and decoded from    *)
(* it, then decoded once more from a copy of the blob.  The encoder is the *)
(* one of Encoder.h or the private one of Logger (Logger.h); the decoder   *)
(* is Decoder.h.  A byte has ByteBase values instead of 256, so that an    *)
(* unsigned short (LenSize bytes) wraps at UShortMod = 4 instead of 65536; *)
(* a pointer and a scalar take one unit.  An argument is                   *)
(* [type, num, str, null]: num the value of a scalar or the address of a   *)
(* literal, str the characters of a string (0 is '\0'), null whether a     *)
(* char pointer is nullptr.                                                *)
(***************************************************************************)
ByteBase == 2
LenSize == 2
PtrSize == 1
ScalarSize == 1
MaxArgs == 2
StaleLen == 1

UShortMod == ByteBase * ByteBase
MaxStrLen == UShortMod
Chars == 0..(ByteBase - 1)

\* n times the character 'a'
Repeat(n) == [i \in 1..n |-> 1]

\* The contents of a std::string or std::string_view: any bytes, '\0'
\* included, for the short ones; the long ones are all 'a'.
StrContents ==
    UNION {[1..n -> Chars] : n \in 0..2} \cup {Repeat(n) : n \in 3..MaxStrLen}

Arg(type, num, str, null) == [type |-> type, num |-> num, str |-> str, null |-> null]

ArgValues ==
    {Arg("scalar", v, <<>>, FALSE) : v \in Chars}
    \cup {Arg("literal", 1, Repeat(n), FALSE) : n \in 0..2}
    \cup {Arg(t, 0, c, FALSE) : t \in {"string", "string_view"}, c \in StrContents}
    \cup {Arg("cstr", 0, Repeat(n), FALSE) : n \in 0..MaxStrLen}
    \cup {Arg("cstr", 0, <<>>, TRUE)}

ArgLists == UNION {[1..n -> ArgValues] : n \in 0..MaxArgs}

Encoders == {"Encoder.h", "Logger.h"}

\* static_cast<unsigned short>(n)
UShort(n) == n % UShortMod

\* memcpy of an unsigned short, low byte first, and the value read back
UShortBytes(len) == <<len % ByteBase, len \div ByteBase>>
UShortAt(b0, b1) == b0 + ByteBase * b1

\* Encoder.h: calculate_single_arg_size
calculate_single_arg_size(arg) ==
    CASE arg.type = "scalar" -> ScalarSize
      [] arg.type = "literal" -> LenSize + PtrSize
      [] arg.type \in {"string", "string_view"} -> LenSize + Len(arg.str)
      [] arg.type = "cstr" -> IF arg.null THEN 0 ELSE LenSize + Len(arg.str)

\* Encoder.h: encode_single_arg, the bytes it writes
encode_single_arg(arg) ==
    CASE arg.type = "scalar" -> <<arg.num>>
      [] arg.type = "literal" -> UShortBytes(UShort(Len(arg.str))) \o <<arg.num>>
      [] arg.type \in {"string", "string_view"} ->
            UShortBytes(UShort(Len(arg.str))) \o SubSeq(arg.str, 1, UShort(Len(arg.str)))
      [] arg.type = "cstr" ->
            IF arg.null THEN <<>>
            ELSE UShortBytes(UShort(Len(arg.str))) \o SubSeq(arg.str, 1, UShort(Len(arg.str)))

\* Logger.h: Logger::calculate_single_arg_size
Logger_calculate_single_arg_size(arg) ==
    CASE arg.type = "scalar" -> ScalarSize
      [] arg.type = "literal" -> PtrSize + LenSize
      [] arg.type \in {"string", "string_view"} -> Len(arg.str) + 1
      [] arg.type = "cstr" -> IF arg.null THEN 0 ELSE Len(arg.str) + 1

\* Logger.h: Logger::encode_single_arg, the bytes it writes
Logger_encode_single_arg(arg) ==
    CASE arg.type = "scalar" -> <<arg.num>>
      [] arg.type = "literal" -> <<arg.num>> \o UShortBytes(UShort(Len(arg.str)))
      [] arg.type \in {"string", "string_view"} -> arg.str \o <<0>>
      [] arg.type = "cstr" -> IF arg.null THEN <<>> ELSE arg.str \o <<0>>

\* calculate_args_size: the fold over the arguments
RECURSIVE calculate_args_size(_, _)
calculate_args_size(encoder, args) ==
    IF args = <<>> THEN 0
    ELSE (IF encoder = "Encoder.h" THEN calculate_single_arg_size(Head(args))
          ELSE Logger_calculate_single_arg_size(Head(args)))
         + calculate_args_size(encoder, Tail(args))

\* encode_args: the fold over the arguments
RECURSIVE encode_args(_, _)
encode_args(encoder, args) ==
    IF args = <<>> THEN <<>>
    ELSE (IF encoder = "Encoder.h" THEN encode_single_arg(Head(args))
          ELSE Logger_encode_single_arg(Head(args)))
         \o encode_args(encoder, Tail(args))

\* The memory a decoder reads: the bytes the encoder wrote, then the bytes
\* of the reserved args_size it left unwritten (inside), then what follows
\* the record (after, StaleLen bytes of it, then zeroes).
Memory(written, size, inside, after) ==
    [written |-> written, size |-> size, inside |-> inside, after |-> after]

ByteAt(m, i) ==
    IF i <= Len(m.written) THEN m.written[i]
    ELSE IF i <= m.size THEN m.inside
    ELSE IF i <= m.size + StaleLen THEN m.after
    ELSE 0

\* The C string at position pos: the bytes up to the first '\0'.
RECURSIVE CStringAt(_, _)
CStringAt(m, pos) ==
    IF ByteAt(m, pos) = 0 THEN <<>>
    ELSE <<ByteAt(m, pos)>> \o CStringAt(m, pos + 1)

\* Decoder.h: DecodedValue<T>::decode_impl at position pos:
\* [value |-> what is handed to std::format_to, next |-> the next position]
decode_impl(type, m, pos) ==
    CASE type = "scalar" ->
            [value |-> [num |-> ByteAt(m, pos), str |-> <<>>, null |-> FALSE],
             next |-> pos + ScalarSize]
      [] type = "literal" ->
            [value |-> [num |-> ByteAt(m, pos), str |-> <<>>, null |-> FALSE],
             next |-> pos + PtrSize + LenSize]
      [] type \in {"string", "string_view", "cstr"} ->
            [value |-> [num |-> 0, str |-> CStringAt(m, pos), null |-> FALSE],
             next |-> pos + Len(CStringAt(m, pos)) + 1]

\* Decoder.h: decode, the arguments read one after the other:
\* [values |-> the decoded values, next |-> the position after the last]
RECURSIVE decode(_, _, _)
decode(args, m, pos) ==
    IF args = <<>> THEN [values |-> <<>>, next |-> pos]
    ELSE LET d == decode_impl(Head(args).type, m, pos)
             rest == decode(Tail(args), m, d.next)
         IN  [values |-> <<d.value>> \o rest.values, next |-> rest.next]

\* What the formatted line must show of an argument.
ValueOf(arg) ==
    [num |-> arg.num,
     str |-> IF arg.type = "literal" THEN <<>> ELSE arg.str,
     null |-> arg.null]

CodecInit ==
    codec \in {[pc |-> "args", encoder |-> e, args |-> a, inside |-> i, after |-> f,
                copyAfter |-> g, blob |-> <<>>, args_size |-> 0, values |-> <<>>,
                consumed |-> 0, values2 |-> <<>>] :
               e \in Encoders, a \in ArgLists, i \in Chars, f \in Chars, g \in Chars}

CodecSpecInit == RingIdle /\ QueueInit /\ LogInit /\ plan = NoPlan /\ SeqIdle /\ CodecInit /\ IoIdle

\* encode_log_entry / Logger::encode: args_size is computed, the arguments
\* are written after the metadata.
CodecEncode ==
    /\ codec.pc = "args"
    /\ codec' = [codec EXCEPT !.pc = "encoded",
                              !.args_size = calculate_args_size(codec.encoder, codec.args),
                              !.blob = encode_args(codec.encoder, codec.args)]
    /\ UNCHANGED <<seqQueue, seqLast, fmt, sink, ringVars, queueVars, logVars,
                   life, out>>

\* metadata.decoder(args_buffer, writer) in process_log_from_queue
CodecDecode ==
    /\ codec.pc = "encoded"
    /\ LET d == decode(codec.args,
                       Memory(codec.blob, codec.args_size, codec.inside, codec.after), 1)
       IN  codec' = [codec EXCEPT !.pc = "decoded", !.values = d.values,
                                  !.consumed = d.next - 1]
    /\ UNCHANGED <<seqQueue, seqLast, fmt, sink, ringVars, queueVars, logVars,
                   life, out>>

\* The decoder run once more, on a copy of the args_size bytes of the blob.
CodecDecodeCopy ==
    /\ codec.pc = "decoded"
    /\ LET d == decode(codec.args,
                       Memory(codec.blob, codec.args_size, codec.inside, codec.copyAfter), 1)
       IN  codec' = [codec EXCEPT !.pc = "decoded2", !.values2 = d.values]
    /\ UNCHANGED <<seqQueue, seqLast, fmt, sink, ringVars, queueVars, logVars,
                   life, out>>

CodecNext == CodecEncode \/ CodecDecode \/ CodecDecodeCopy

SpecCodec == CodecSpecInit /\ [][CodecNext]_vars

(***************************************************************************)
(* SpecLive: the run of the spec's scenario "producer logs, exits, the     *)
(* consumer drains and reclaims": the producers log and one of them exits, *)
(* start() is called and stop() is not.  The consumer thread, once         *)
(* started, is scheduled again and again, and so is the thread that calls  *)
(* start() and a producer inside log_impl.                                 *)
(***************************************************************************)
LivePlan == [logs |-> 1, exits |-> 1, calls |-> 1, local |-> 0, dtor |-> 0]

LiveSpecInit ==
    RingIdle /\ QueueInit /\ LogInit /\ plan = LivePlan /\ SeqIdle /\ CodecIdle /\ IoIdle

ConsumerNext == C_Loop \/ C_Scan \/ C_Select \/ C_Process

LiveNext ==
    \/ \E p \in Producers : P_Allocate(p) \/ P_Reserve(p) \/ P_Encode(p) \/ P_Exit(p)
    \/ ConsumerNext
    \/ Ctl_Start \/ Ctl_Spawn

SpecLive ==
    /\ LiveSpecInit /\ [][LiveNext]_vars
    /\ WF_vars(ConsumerNext)
    /\ WF_vars(Ctl_Spawn)
    /\ \A p \in Producers : WF_vars(P_Encode(p))

ConsumerStep == cons' # cons /\ ctl' = ctl /\ prod' = prod

\* C11: whenever the consumer's reclaim_abandoned_queues clears
\* m_pending_deletion, the vector m_snapshot_list points to holds none of the
\* wrappers released; and no wrapper of the snapshot's vector is ever a
\* destroyed one, so process_one_log never traverses a destroyed wrapper.
C11_TwoPhase ==
    /\ [][(ConsumerStep /\ m_pending_deletion # <<>>
              /\ m_pending_deletion' # m_pending_deletion)
           => Range(m_pending_deletion) \cap Range(m_snapshot_list) = {}]_vars
    /\ [](\A w \in Range(m_snapshot_list) : wrappers[w].state = "live")

\* A wrapper went through both phases: it was destroyed when the consumer
\* cleared m_pending_deletion, and the consumer has gone on to scan its
\* snapshot afterwards.
C11_Witness ==
    /\ \E p \in Producers : wrappers[p].state = "destroyed" /\ prod[p].exited
    /\ m_pending_deletion = <<>>
    /\ cons.pc = "select"

\* C12: a wrapper and its Queue are destroyed only in a step of the consumer
\* loop, and only when the wrapper is marked abandoned and its queue is
\* empty.
C12_OnlyOrphanedEmpty ==
    [][\A p \in Producers :
          (wrappers[p].state = "live" /\ wrappers'[p].state = "destroyed")
          => (ConsumerStep /\ wrappers[p].abandoned /\ Q_is_empty(queues[p]))]_vars

\* C14: every queue a producer thread has made a reservation in was made by
\* the backend: its wrapper is in m_current_list as long as the thread has
\* not exited, and m_dirty is raised until the snapshot holds it too.
C14_InCurrentList ==
    \A p \in Producers :
        (prod[p].n > 0 /\ ~prod[p].exited /\ ctl.pc # "destroyed")
        => /\ p \in Range(m_current_list)
           /\ (m_dirty \/ p \in Range(m_snapshot_list))

\* The tail Node of the Queue the last call was made on.
SeqTailBefore == seqLast.before.nodes[seqLast.before.write_node]

\* A reserve_write(n), n <= MAX_NODE_CAPACITY, that the tail Node rejected
\* while its capacity was below MAX_NODE_CAPACITY.
SeqGrowthCase ==
    /\ seqLast.op = "reserve" /\ seqLast.n <= SeqMaxNode
    /\ ~RB_reserve_ok(SeqTailBefore.ring, seqLast.n)
    /\ SeqTailBefore.capacity < SeqMaxNode

\* min(MAX_NODE, next_pow2(max(2 * tail.capacity, n)))
SeqGrowthFormula ==
    Min(SeqMaxNode,
        next_power_of_2(IF 2 * SeqTailBefore.capacity >= seqLast.n
                        THEN 2 * SeqTailBefore.capacity ELSE seqLast.n))

\* C15: when the tail rejects a reservation of n <= MAX_NODE bytes and its
\* capacity is below MAX_NODE, reserve_write links exactly one new tail Node
\* whose ring capacity is min(MAX_NODE, next_pow2(max(2 * tail.capacity, n)))
\* and returns the reservation inside it: node_count() has grown by one and
\* current_capacity() is that value.
C15_GrowthCapacity ==
    SeqGrowthCase =>
        /\ seqLast.ok
        /\ Len(seqQueue.nodes) = Len(seqLast.before.nodes) + 1
        /\ seqQueue.write_node = Len(seqQueue.nodes)
        /\ seqLast.before.nodes[seqLast.before.write_node].next = 0
        /\ seqQueue.nodes[seqLast.before.write_node].next = seqQueue.write_node
        /\ Q_node_count(seqQueue) = Q_node_count(seqLast.before) + 1
        /\ seqQueue.nodes[seqQueue.write_node].ring.cap = SeqGrowthFormula
        /\ seqQueue.nodes[seqQueue.write_node].ring.wp = seqLast.n
        /\ Q_current_capacity(seqQueue) = SeqGrowthFormula

\* C17: reserve_write(n) with 0 < n <= MAX_NODE fails only when the capacity
\* of the tail Node equals MAX_NODE and its free space (capacity minus
\* unread bytes) is smaller than n.
C17_FailsOnlyWhenFull ==
    (seqLast.op = "reserve" /\ seqLast.n <= SeqMaxNode /\ ~seqLast.ok)
    => /\ SeqTailBefore.capacity = SeqMaxNode
       /\ RB_available_write(SeqTailBefore.ring) < seqLast.n

C16_NoUnreadFreed == qFreedUnread = 0

\* The runtime string arguments: std::string, std::string_view, char pointer.
RuntimeString(arg) == arg.type \in {"string", "string_view", "cstr"} /\ ~arg.null

\* C19: a record of Encoder.h with one runtime string argument of length L.
\* Up to the largest unsigned short (65535, here UShortMod - 1) the stored
\* length is L and all L bytes are copied; above it the string is cut to its
\* first UShortMod - 1 bytes (the encoder has no way to drop the record); in
\* both cases the stored length, the bytes copied and args_size agree.
C19_StringLength ==
    (/\ codec.pc \in {"encoded", "decoded", "decoded2"}
     /\ codec.encoder = "Encoder.h"
     /\ Len(codec.args) = 1
     /\ RuntimeString(codec.args[1]))
    => LET str == codec.args[1].str
           kept == IF Len(str) < UShortMod THEN Len(str) ELSE UShortMod - 1
       IN  /\ UShortAt(codec.blob[1], codec.blob[2]) = kept
           /\ SubSeq(codec.blob, LenSize + 1, Len(codec.blob)) = SubSeq(str, 1, kept)
           /\ codec.args_size = LenSize + kept

\* C20: the decoder reads the fields as the encoder wrote them: decoding
\* consumes exactly args_size bytes and reproduces every argument, and
\* decoding a copy of the blob again gives the same values.
C20_RoundTrip ==
    /\ (codec.pc \in {"decoded", "decoded2"}
        => /\ codec.consumed = codec.args_size
           /\ codec.values = [i \in 1..Len(codec.args) |-> ValueOf(codec.args[i])])
    /\ (codec.pc = "decoded2" => codec.values2 = codec.values)

\* The consumer thread is running consume_loop.
ConsumerRunning == cons.pc \in {"loop", "scan", "select", "args"}

\* Every record producer p has written is in a line of the output.
AllEmitted(p) ==
    \A r \in obs.committed : r.p = p => LineOf(r) \in Range(AllLines)

\* C13: once a producer that has logged has exited and the consumer is
\* running, the consumer eventually has emitted all the records of its queue
\* and has taken the wrapper out of m_current_list into m_pending_deletion
\* (one reclaim pass), and from there the wrapper is eventually destroyed
\* (the following pass).
C13_DrainedThenReclaimed ==
    \A p \in Producers :
        /\ (prod[p].exited /\ prod[p].n > 0 /\ ConsumerRunning)
              ~> (/\ AllEmitted(p)
                  /\ p \notin Range(m_current_list)
                  /\ wrappers[p].state = "live" => p \in Range(m_pending_deletion))
        /\ (p \in Range(m_pending_deletion) /\ ConsumerRunning)
              ~> (wrappers[p].state = "destroyed")

(***************************************************************************)
(* Claims about the positions of a RingBytes, checked under SpecRing       *)
(***************************************************************************)
\* C25: on a RingBytes whose consumer commits only counts it has read, the
\* write position is never behind the read position, the two are never more
\* than the capacity apart, and neither position ever decreases.
C25_Positions ==
    /\ [](rb.wp >= rb.rp /\ rb.wp - rb.rp <= rb.cap)
    /\ [][rb'.wp >= rb.wp /\ rb'.rp >= rb.rp]_vars

\* A commit_read has moved the read position and unread bytes remain.
C25_Witness ==
    /\ rbLast.op = "commit_read"
    /\ rb.rp = rbLast.rp + rbLast.n
    /\ rb.rp > 0 /\ rb.wp > rb.rp

\* C27: reserve_write leaves the write position unchanged; the write
\* position advances only in a separate commit step.
C27_ReserveKeepsWritePos == (LastReserve /\ rbLast.ok) => rb.wp = rbLast.wp

(***************************************************************************)
(* Claims about the byte accounting of a Queue, checked under SpecSeq      *)
(***************************************************************************)
\* The Queue has one Node before and after the last call.
SeqSingleNode == Q_node_count(seqLast.before) = 1 /\ Q_node_count(seqQueue) = 1

\* C24: on a single-node Queue a successful reserve_write(n) increases
\* available_read() by n and decreases available_write() by n, commit_read(m)
\* does the reverse, and available_read() + available_write() equals the
\* capacity of the Queue in every reachable state.
C24_Accounting ==
    /\ Q_node_count(seqQueue) = 1 =>
           Q_available_read(seqQueue) + Q_available_write(seqQueue)
               = Q_current_capacity(seqQueue)
    /\ (SeqSingleNode /\ seqLast.op = "reserve" /\ seqLast.ok) =>
           /\ Q_available_read(seqQueue) = Q_available_read(seqLast.before) + seqLast.n
           /\ Q_available_write(seqQueue) = Q_available_write(seqLast.before) - seqLast.n
    /\ (SeqSingleNode /\ seqLast.op = "commit_read") =>
           /\ Q_available_read(seqQueue) = Q_available_read(seqLast.before) - seqLast.n
           /\ Q_available_write(seqQueue) = Q_available_write(seqLast.before) + seqLast.n

\* C26: at a tail of capacity MAX_NODE a rejection is not permanent: once
\* the consumer has drained every unread byte of the Queue, a reserve_write(n)
\* with 0 < n <= MAX_NODE succeeds.
C26_DrainedThenAccepted ==
    (/\ seqLast.op = "reserve" /\ seqLast.n <= SeqMaxNode
     /\ SeqTailBefore.ring.cap = SeqMaxNode
     /\ Q_is_empty(seqLast.before))
    => seqLast.ok

(***************************************************************************)
(* Claims about the Nodes a thread touches, checked under SpecQueue        *)
(***************************************************************************)
\* The Node the producer's next step dereferences: current_write in
\* reserve_write (lines 80-123), the Node of the returned pointer afterwards.
ProducerTouches ==
    CASE qProd.pc \in {"reserve", "link"} -> {qWrite}
      [] qProd.pc = "memcpy" -> {qProd.node}
      [] OTHER -> {}

\* The Nodes the consumer's next step dereferences: current_read in read and
\* commit_read, and next_node after the switch of lines 217-223.
ConsumerTouches ==
    CASE qCons.pc \in {"read", "next", "commit", "drained", "free"} -> {qRead}
      [] qCons.pc = "switch" -> {qRead, qCons.next}
      [] OTHER -> {}

\* C28: for every interleaving of the producer's reserve_write (growth
\* included) with the consumer's read and commit_read, every Node a thread
\* accesses is live: no deleted Node is dereferenced.
C28_LiveNodes ==
    \A i \in ProducerTouches \cup ConsumerTouches :
        i \in 1..Len(qNodes) /\ qNodes[i].live

\* The consumer has deleted the old tail between the producer's store to
\* next and its store to write_node_, and the producer is still in the call.
C28_Witness ==
    /\ qProd.pc = "publish"
    /\ ~qNodes[qWrite].live
    /\ qRead = qProd.node

(***************************************************************************)
(* Claims about the merge of the queues, checked under Spec                *)
(***************************************************************************)
\* The place of wrapper w in a list of wrappers.
PlaceIn(list, w) == CHOOSE i \in 1..Len(list) : list[i] = w

\* Lines with equal timestamps from different queues are in the order of
\* their queues in the snapshot list.
TieOrder ==
    \A i, j \in 1..Len(AllLines) :
        (/\ i < j /\ Carries(AllLines[i]) /\ Carries(AllLines[j])
         /\ RecordIn(AllLines[i]).ts = RecordIn(AllLines[j]).ts
         /\ RecordIn(AllLines[i]).p # RecordIn(AllLines[j]).p
         /\ RecordIn(AllLines[i]).p \in Range(m_snapshot_list)
         /\ RecordIn(AllLines[j]).p \in Range(m_snapshot_list))
        => PlaceIn(m_snapshot_list, RecordIn(AllLines[i]).p)
               < PlaceIn(m_snapshot_list, RecordIn(AllLines[j]).p)

\* C30: when all records are committed before the consumer starts and the
\* timestamps of each queue are non-decreasing, the consumer emits the
\* records sorted by timestamp, and records with equal timestamps at the
\* heads of different queues come out in snapshot-list order.
C30_SortedWithTies ==
    (~obs.logAfterStart /\ obs.steady) => (TimestampOrder /\ TieOrder)

\* Producer 2 registered first; both logged one record with the same
\* timestamp before start(), and the record of producer 2 came out first.
C30_Witness ==
    /\ ~obs.logAfterStart /\ obs.steady
    /\ m_snapshot_list = <<2, 1>>
    /\ Len(AllLines) = 2
    /\ Carries(AllLines[1]) /\ Carries(AllLines[2])
    /\ RecordIn(AllLines[1]).p = 2 /\ RecordIn(AllLines[2]).p = 1
    /\ RecordIn(AllLines[1]).ts = RecordIn(AllLines[2]).ts

(***************************************************************************)
(* Claims about the consumer's read position, checked under Spec           *)
(***************************************************************************)
RECURSIVE SumTo(_, _)
SumTo(f, n) == IF n = 0 THEN 0 ELSE f[n] + SumTo(f, n - 1)

\* The bytes of a Queue the consumer has committed so far: the sum of the
\* read positions of its Nodes.
ReadPosOf(q) == SumTo([i \in 1..Len(q.nodes) |-> q.nodes[i].ring.rp], Len(q.nodes))

\* The bytes of the records of producer p whose lines have been appended.
EmittedBytesOf(p) ==
    SumTo([i \in 1..Len(AllLines) |->
              IF Carries(AllLines[i]) /\ RecordIn(AllLines[i]).p = p
              THEN MetaSize + RecordIn(AllLines[i]).args ELSE 0],
          Len(AllLines))

\* A step that moves the read position of a Queue moves it by the size of
\* one whole record and appends that record's line.
OneAdvancePerRecord ==
    \A p \in Producers :
        (/\ queues[p] # NoQueue /\ queues'[p] # NoQueue
         /\ ReadPosOf(queues'[p]) # ReadPosOf(queues[p]))
        => /\ Len(AllLines') = Len(AllLines) + 1
           /\ ReadPosOf(queues'[p]) - ReadPosOf(queues[p])
                  = MetaSize + Len(AllLines'[Len(AllLines')].args)

\* When process_one_log starts, the read position of every Queue is the
\* total size of the records of that Queue emitted so far.
AtRecordBoundary ==
    cons.pc = "scan" =>
        \A p \in Producers :
            queues[p] # NoQueue => ReadPosOf(queues[p]) = EmittedBytesOf(p)

\* C29: per record the consumer advances the read position once, by
\* sizeof(Metadata) + args_size, and only after the complete line has been
\* appended; whenever process_one_log starts, the read position of every
\* queue is at a record boundary.
C29_OneCommitAfterLine == [][OneAdvancePerRecord]_vars /\ []AtRecordBoundary

(***************************************************************************)
(* SpecFormat: process_log_from_queue formats one record into a line.      *)
(* Strings are strings; a timestamp is a number of nanoseconds, with       *)
(* NsPerMs nanoseconds to the millisecond.                                 *)
(***************************************************************************)
\* 1000000 in Backend.h:435, scaled so that two days of nanoseconds are
\* numbers TLC can hold
NsPerMs == 2

\* LogLevel is a uint8_t: TRACE..FATAL are 0..5, and the byte of a Metadata
\* can hold other values
LevelBytes == 0..6
FmtDays == {0, 1}
FmtSeconds == {0, 59, 60, 3599, 3600, 45296, 86399}
FmtMillis == {0, 7, 99, 100, 999}
FmtMessages == {"", "msg"}
FmtTimestamps ==
    {((d * 86400 + sec) * 1000 + ms) * NsPerMs + u :
        d \in FmtDays, sec \in FmtSeconds, ms \in FmtMillis, u \in 0..(NsPerMs - 1)}

\* Backend::level_to_string
level_to_string(level) ==
    CASE level = 0 -> "[TRACE]"
      [] level = 1 -> "[DEBUG]"
      [] level = 2 -> "[INFO]"
      [] level = 3 -> "[WARN]"
      [] level = 4 -> "[ERROR]"
      [] level = 5 -> "[FATAL]"
      [] OTHER -> "[UNKNOWN]"

\* '0' + d
Digit(d) == <<"0", "1", "2", "3", "4", "5", "6", "7", "8", "9">>[d + 1]

\* format_timestamp: the table digits[200], two characters per number
digits == [i \in 0..199 |->
              IF i % 2 = 0 THEN Digit((i \div 2) \div 10) ELSE Digit((i \div 2) % 10)]

\* format_timestamp, a mutation: the seconds are not wrapped to the day.
seconds_in_day_nowrap(total_seconds) == total_seconds

\* format_timestamp, lines 443-445: the seconds within the day
seconds_in_day(total_seconds) == total_seconds - (total_seconds \div 86400) * 86400

\* Backend::format_timestamp
format_timestamp(timestamp_ns) ==
    LET total_ms == timestamp_ns \div NsPerMs
        milliseconds == total_ms - (total_ms \div 1000) * 1000
        total_seconds == seconds_in_day(total_ms \div 1000)
        hours == total_seconds \div 3600
        rest == total_seconds - hours * 3600
        minutes == rest \div 60
        seconds == rest - minutes * 60
        ms_hundreds == milliseconds \div 100
        ms_remainder == milliseconds - ms_hundreds * 100
    IN  digits[hours * 2] \o digits[hours * 2 + 1] \o ":"
        \o digits[minutes * 2] \o digits[minutes * 2 + 1] \o ":"
        \o digits[seconds * 2] \o digits[seconds * 2 + 1] \o ":"
        \o Digit(ms_hundreds) \o digits[ms_remainder * 2] \o digits[ms_remainder * 2 + 1]

\* A record the consumer has copied: its level, its timestamp and what its
\* decoder will append.
FmtInit ==
    \E level \in LevelBytes, ts \in FmtTimestamps, msg \in FmtMessages :
        fmt = [pc |-> "record", level |-> level, timestamp |-> ts,
               message |-> msg, line |-> ""]

FmtSpecInit ==
    RingIdle /\ QueueInit /\ LogInit /\ plan = NoPlan /\ SeqIdle /\ CodecIdle
    /\ FmtInit /\ sink = NoSink /\ LifeIdle /\ OutIdle

\* process_log_from_queue, lines 392-405: the appends of one line
FmtAppend ==
    /\ fmt.pc = "record"
    /\ fmt' = [fmt EXCEPT !.pc = "line",
                  !.line = level_to_string(fmt.level) \o " "
                           \o format_timestamp(fmt.timestamp) \o " "
                           \o fmt.message \o "\n"]
    /\ UNCHANGED <<seqQueue, seqLast, codec, sink, ringVars, queueVars, logVars,
                   life, out>>

FmtNext == FmtAppend

SpecFormat == FmtSpecInit /\ [][FmtNext]_vars

(***************************************************************************)
(* Claims about the line format, checked under SpecFormat                  *)
(***************************************************************************)
LevelNames == <<"TRACE", "DEBUG", "INFO", "WARN", "ERROR", "FATAL">>
TwoDigits(v) == Digit(v \div 10) \o Digit(v % 10)
ThreeDigits(v) == Digit(v \div 100) \o TwoDigits(v % 100)

\* HH:MM:SS and mmm of the record's timestamp, the milliseconds after sep
ClockOf(timestamp_ns, sep) ==
    LET secs == (timestamp_ns \div (1000 * NsPerMs)) % 86400
        HH == secs \div 3600
        MM == (secs % 3600) \div 60
        SS == secs % 60
        mmm == (timestamp_ns \div NsPerMs) % 1000
    IN  TwoDigits(HH) \o ":" \o TwoDigits(MM) \o ":" \o TwoDigits(SS)
        \o sep \o ThreeDigits(mmm)

\* C21 as stated: every emitted line is "[LEVEL] HH:MM:SS.mmm <message>\n"
\* with LEVEL one of TRACE..FATAL, HH < 24, MM < 60, SS < 60, mmm < 1000,
\* computed from the nanosecond timestamp by integer division after wrapping
\* the seconds modulo 86400.
C21_AsStated ==
    fmt.pc = "line" =>
        \E k \in 1..Len(LevelNames) :
            fmt.line = "[" \o LevelNames[k] \o "] " \o ClockOf(fmt.timestamp, ".")
                       \o " " \o fmt.message \o "\n"

\* C21: every emitted line is "[LEVEL] HH:MM:SS:mmm <message>\n", the
\* milliseconds after a colon, with HH < 24, MM < 60, SS < 60, mmm < 1000
\* computed from the nanosecond timestamp by integer division after wrapping
\* the seconds modulo 86400; LEVEL is the name of the record's level, one of
\* TRACE..FATAL, and UNKNOWN for a level byte outside the enumeration.
C21_LineFormat ==
    fmt.pc = "line" =>
        fmt.line = "[" \o (IF fmt.level < Len(LevelNames)
                           THEN LevelNames[fmt.level + 1] ELSE "UNKNOWN")
                   \o "] " \o ClockOf(fmt.timestamp, ":")
                   \o " " \o fmt.message \o "\n"

\* An INFO record stamped 12:34:56 and 7 ms on the second day has been
\* formatted.
C21_Witness ==
    /\ fmt.pc = "line"
    /\ fmt.level = 2 /\ fmt.message = "msg"
    /\ fmt.timestamp = ((86400 + 45296) * 1000 + 7) * NsPerMs
    /\ fmt.line = "[INFO] 12:34:56:007 msg\n"

(***************************************************************************)
(* SpecSink: one Sinker (Sinker.h) and the files of its directory.  A file *)
(* name is <<date, counter>>, the file descriptor is the name of the open  *)
(* file and NoFd for -1.  files maps a name to the size of the file, -1    *)
(* where there is none.  open() and ::write() fail when the system makes   *)
(* them fail.                                                              *)
(***************************************************************************)
\* max_file_size, 100 MiB by default, scaled
SinkMaxFileSize == 4
MaxDay == 2
MaxSinkWrites == 3
SinkLengths == 1..(SinkMaxFileSize + 1)
SinkNames == (1..MaxDay) \X (1..(MaxSinkWrites + 2))
NoFd == <<0, 0>>
NoWrite == [called |-> FALSE, n |-> 0, ret |-> FALSE, rotated |-> FALSE,
            opened |-> FALSE, attempted |-> FALSE, written |-> 0,
            date |-> 0, counter |-> 0, fd |-> NoFd, files |-> <<>>]

\* Sinker::close_file
close_file(s) == [s EXCEPT !.fd_ = NoFd]

\* Sinker::generate_filename
generate_filename(s) == <<s.current_date_, s.daily_counter_>>

\* Sinker::open_file: O_CREAT | O_APPEND, then fstat for the size; ok is
\* whether open() returns a descriptor
open_file(s, ok) ==
    LET name == generate_filename(s)
        size == IF s.files[name] < 0 THEN 0 ELSE s.files[name]
    IN  IF ok
        THEN [s EXCEPT !.current_filename_ = name, !.fd_ = name,
                       !.files[name] = size, !.current_file_size_ = size]
        ELSE [s EXCEPT !.current_filename_ = name, !.fd_ = NoFd]

\* Sinker::rotate_file, a mutation: the counter is not incremented.
rotate_file_samecounter(s, ok) ==
    open_file([close_file(s) EXCEPT !.current_file_size_ = 0], ok)

\* Sinker::rotate_file
rotate_file(s, ok) ==
    open_file([close_file(s) EXCEPT !.daily_counter_ = @ + 1,
                                    !.current_file_size_ = 0], ok)

\* Sinker::check_date_change
check_date_change(s, ok) ==
    IF s.today # s.current_date_
    THEN open_file([close_file(s) EXCEPT !.current_date_ = s.today,
                                         !.daily_counter_ = 1,
                                         !.current_file_size_ = 0], ok)
    ELSE s

\* Sinker::find_next_counter
find_next_counter(s) ==
    LET used == {name[2] : name \in {nm \in SinkNames :
                     nm[1] = s.current_date_ /\ s.files[nm] >= 0}}
    IN  [s EXCEPT !.daily_counter_ =
            IF used = {} THEN 1 ELSE 1 + CHOOSE c \in used : \A d \in used : d <= c]

\* what ::write(fd_, data, length) can return on an open descriptor
WriteResults(length) == {-1, length - 1, length}

\* Sinker::write: okDate and okRotate are the results of the open() calls
\* of check_date_change and rotate_file, written that of ::write
Sinker_write(s, length, okDate, okRotate, written) ==
    IF s.fd_ = NoFd
    THEN [s EXCEPT !.last = [NoWrite EXCEPT !.called = TRUE, !.n = length,
                                            !.files = s.files]]
    ELSE LET dated == check_date_change(s, okDate)
             rotates == dated.current_file_size_ + length > SinkMaxFileSize
             turned == IF rotates THEN rotate_file(dated, okRotate) ELSE dated
             done == IF turned.fd_ = NoFd \/ written < 0 THEN turned
                     ELSE [turned EXCEPT !.files[turned.fd_] = @ + written,
                                         !.current_file_size_ = @ + written]
         IN  [done EXCEPT
                 !.rotationFailed = @ \/ (rotates /\ ~okRotate),
                 !.last = [called |-> TRUE, n |-> length,
                           ret |-> turned.fd_ # NoFd /\ written = length,
                           rotated |-> rotates, opened |-> rotates /\ okRotate,
                           attempted |-> TRUE,
                           written |-> IF turned.fd_ = NoFd THEN -1 ELSE written,
                           date |-> dated.current_date_,
                           counter |-> dated.daily_counter_,
                           fd |-> dated.fd_, files |-> dated.files]]

\* The directories a Sinker can find: empty, or with the first file of the
\* day left by an earlier run.
SinkDirectories ==
    {[nm \in SinkNames |-> -1],
     [nm \in SinkNames |-> IF nm = <<1, 1>> THEN 2 ELSE -1]}

\* Sinker::Sinker: update_current_date and open_file
SinkInit ==
    \E dir \in SinkDirectories, ok \in BOOLEAN :
        sink = open_file(find_next_counter(
                   [pc |-> "open", current_date_ |-> 1, daily_counter_ |-> 1,
                    current_file_size_ |-> 0, fd_ |-> NoFd,
                    current_filename_ |-> NoFd, files |-> dir, today |-> 1,
                    calls |-> 0, rotationFailed |-> FALSE, last |-> NoWrite]), ok)

SinkSpecInit ==
    RingIdle /\ QueueInit /\ LogInit /\ plan = NoPlan /\ SeqIdle /\ CodecIdle
    /\ fmt = NoFmt /\ SinkInit /\ LifeIdle /\ OutIdle

\* a call of Sinker::write(data, length)
SinkWrite ==
    /\ sink.calls < MaxSinkWrites
    /\ \E length \in SinkLengths, okDate \in BOOLEAN, okRotate \in BOOLEAN :
       \E written \in WriteResults(length) :
          sink' = [Sinker_write(sink, length, okDate, okRotate, written)
                      EXCEPT !.calls = sink.calls + 1]
    /\ UNCHANGED <<seqQueue, seqLast, codec, fmt, ringVars, queueVars, logVars,
                   life, out>>

\* midnight: get_date_string returns the next date from now on
SinkMidnight ==
    /\ sink.today < MaxDay
    /\ sink' = [sink EXCEPT !.today = @ + 1]
    /\ UNCHANGED <<seqQueue, seqLast, codec, fmt, ringVars, queueVars, logVars,
                   life, out>>

SinkNext == SinkWrite \/ SinkMidnight

SpecSink == SinkSpecInit /\ [][SinkNext]_vars

(***************************************************************************)
(* Claims about the rotation of the log file, checked under SpecSink       *)
(***************************************************************************)
\* The last write found current_file_size_ + n > max_file_size_.
SizeRotation == sink.last.called /\ sink.last.rotated

\* C22: a write of n bytes with current_file_size + n > MAX_FILE_SIZE closes
\* the current file and opens the file of counter N + 1 of the same date
\* before writing: the counter has increased by exactly one, the file named
\* is that of the date and of N + 1, no byte went to the file open before,
\* and the bytes written are in the new file.
C22_SizeRotation ==
    SizeRotation =>
        /\ sink.daily_counter_ = sink.last.counter + 1
        /\ sink.current_date_ = sink.last.date
        /\ sink.current_filename_ = <<sink.last.date, sink.last.counter + 1>>
        /\ sink.last.fd # NoFd =>
              /\ sink.fd_ # sink.last.fd
              /\ sink.files[sink.last.fd] = sink.last.files[sink.last.fd]
        /\ sink.last.opened =>
              /\ sink.fd_ = sink.current_filename_
              /\ sink.last.written >= 0 =>
                    /\ sink.current_file_size_ = sink.last.written
                    /\ sink.files[sink.fd_] = sink.last.written

\* A file holding 3 bytes was closed by a write of 2 bytes, which went to
\* the next file of the day.
C22_Witness ==
    /\ SizeRotation /\ sink.last.opened
    /\ sink.last.n = 2 /\ sink.last.written = 2 /\ sink.last.ret
    /\ sink.last.files[sink.last.fd] = 3
    /\ sink.files[sink.fd_] = 2
    /\ sink.daily_counter_ = sink.last.counter + 1

\* C23: if the new file cannot be created during a rotation, the sink keeps
\* writing to the file that was open before: a failed rotation does not
\* leave the sink without an open file, and later writes are still
\* attempted.
C23_FailedRotationKeepsFile ==
    /\ (SizeRotation /\ ~sink.last.opened) =>
           (sink.fd_ # NoFd /\ sink.fd_ = sink.last.fd)
    /\ (sink.pc = "open" /\ sink.rotationFailed /\ sink.last.called) =>
           sink.last.attempted

\* C39: no log file grows beyond MAX_FILE_SIZE: after every Sinker::write,
\* whatever the length of the write and whatever file open_file found,
\* current_file_size is at most max_file_size, and so is every file.
C39_FileSizeBounded ==
    (sink.pc = "open" /\ sink.last.called) =>
        /\ sink.current_file_size_ <= SinkMaxFileSize
        /\ \A nm \in SinkNames : sink.files[nm] <= SinkMaxFileSize

(***************************************************************************)
(* Claims about the ranges the consumer reads, checked under SpecQueue     *)
(***************************************************************************)
\* The ring of the head Node and the buffer index of its read position.
HeadRing == qNodes[qRead].ring
HeadIndex == RB_index(HeadRing, HeadRing.rp)

\* The consumer's read is the read of a reserved message: the bytes
\* committed so far are whole messages and the size asked for is the size
\* of the next one.
ReadsMessage ==
    \E j \in 0..(Len(qSizes) - 1) :
        Len(consumed) = SumTo(qSizes, j) /\ qCons.size = qSizes[j + 1]

SyncStep == cons.pc = "loop" /\ m_dirty /\ cons' # cons
ReclaimAllStep == ctl.pc = "reclaim_all" /\ ctl' # ctl

\* C32: allocate_queue_for_thread and reclaim_abandoned_queues never modify
\* the vector snapshot_list refers to: they replace current_list by a
\* modified copy, and the queues the consumer traverses change only when the
\* consumer itself refreshes its snapshot.
C32_SnapshotUntouched ==
    /\ [][(m_current_list' # m_current_list /\ ~ReclaimAllStep)
             => (m_snapshot_list' = m_snapshot_list /\ ~sameVector')]_vars
    /\ [][(m_snapshot_list' # m_snapshot_list /\ ~ReclaimAllStep)
             => (SyncStep /\ m_snapshot_list' = m_current_list)]_vars

\* The consumer traverses a snapshot of one queue while a second queue has
\* been added to the current list.
C32_Witness ==
    /\ cons.pc \in {"scan", "select", "args"}
    /\ m_snapshot_list = <<1>>
    /\ m_current_list = <<1, 2>>
    /\ ~sameVector

\* C33: no publish is lost: whenever the dirty flag is false (and no thread
\* is inside a section guarded by writer_mutex), snapshot_list refers to the
\* same list as current_list, and every step of allocate or reclaim that
\* changes current_list leaves the flag set for the consumer's next check.
\* Until the destructor's reclaim_all_queues the two pointers are the same
\* vector; after it they are two empty vectors.
C33_NoLostPublish ==
    /\ [](~m_dirty => m_snapshot_list = m_current_list)
    /\ []((~m_dirty /\ ctl.pc # "destroyed") => sameVector)
    /\ [][(m_current_list' # m_current_list /\ ~ReclaimAllStep) => m_dirty']_vars

\* Queue 1 was added, abandoned and reclaimed, queue 2 was added, and the
\* consumer has synchronised since: the flag is clear and both pointers
\* refer to the list holding queue 2 only.
C33_Witness ==
    /\ ~m_dirty /\ sameVector
    /\ m_current_list = <<2>> /\ m_snapshot_list = <<2>>
    /\ wrappers[1].state = "destroyed" /\ ctl.pc # "destroyed"

(***************************************************************************)
(* Claims about the progress of the consumer, checked under SpecLive       *)
(***************************************************************************)
\* Log call n of producer p has written its record.
CommittedRecord(p, n) == \E r \in obs.committed : r.p = p /\ r.n = n

\* The line of log call n of producer p is in the output.
EmittedRecord(p, n) ==
    \A r \in obs.committed : (r.p = p /\ r.n = n) => LineOf(r) \in Range(AllLines)

\* C34: while the consumer runs and is scheduled fairly, every record
\* committed to a queue that is in current_list is eventually emitted,
\* whatever the other producers do (the clock of the model never decreases
\* across threads).
C34_EveryRecordEmitted ==
    \A p \in Producers : \A n \in 1..MaxLogs :
        (CommittedRecord(p, n) /\ p \in Range(m_current_list) /\ ConsumerRunning)
            ~> EmittedRecord(p, n)

(***************************************************************************)
(* SpecLife: Backend::start() and Backend::stop() called by two threads,   *)
(* one that calls start() and one that calls stop(), either in turn or at  *)
(* the same time; the consumer threads start() spawns; a producer thread   *)
(* that logs into its queue whenever the queue has room.  Each action is   *)
(* one access to running_ or consumer_thread_, or one iteration of a loop  *)
(* of consume_loop.                                                        *)
(***************************************************************************)
MaxStarts == 2
MaxStops == 2
LifeCapacity == 2
LifeModes == {"in turn", "concurrent"}
LifeThreads == 1..MaxStarts

LifeInit ==
    \E m \in LifeModes :
        life = [pc |-> "constructed", mode |-> m, running_ |-> FALSE,
                consumer_thread_ |-> 0,
                threads |-> [t \in LifeThreads |-> "none"],
                starter |-> "idle", stopper |-> "idle",
                starts |-> 0, stops |-> 0, returned |-> 0,
                startSinceStop |-> FALSE, pending |-> 0, terminated |-> FALSE]

LifeSpecInit ==
    /\ RingIdle /\ QueueInit /\ LogInit /\ plan = NoPlan /\ SeqIdle /\ CodecIdle
    /\ fmt = NoFmt /\ sink = NoSink /\ LifeInit /\ OutIdle

LifeStep(l) ==
    /\ life.pc = "constructed" /\ ~life.terminated
    /\ life' = l
    /\ UNCHANGED <<seqQueue, seqLast, codec, fmt, sink, out, ringVars, queueVars,
                   logVars>>

\* Backend::start: running_.exchange(true), return if it was set
Start_Exchange ==
    /\ life.starter = "idle" /\ life.starts < MaxStarts
    /\ life.mode = "in turn" => life.stopper = "idle"
    /\ LifeStep([life EXCEPT !.starts = @ + 1, !.startSinceStop = TRUE,
                             !.running_ = TRUE,
                             !.starter = IF life.running_ THEN "idle" ELSE "spawn"])

\* Backend::start: consumer_thread_ = std::thread(...); the move assignment
\* calls std::terminate when consumer_thread_ is joinable
Start_Spawn ==
    /\ life.starter = "spawn"
    /\ LET t == Cardinality({u \in LifeThreads : life.threads[u] # "none"}) + 1
       IN  IF life.consumer_thread_ # 0
           THEN LifeStep([life EXCEPT !.terminated = TRUE])
           ELSE LifeStep([life EXCEPT !.threads[t] = "loop",
                                      !.consumer_thread_ = t,
                                      !.starter = "idle"])

\* Backend::stop: running_.exchange(false), return if it was clear
Stop_Exchange ==
    /\ life.stopper = "idle" /\ life.stops < MaxStops
    /\ life.mode = "in turn" => life.starter = "idle"
    /\ LifeStep([life EXCEPT !.stops = @ + 1, !.startSinceStop = FALSE,
                             !.running_ = FALSE,
                             !.stopper = IF life.running_ THEN "joinable" ELSE "idle",
                             !.returned = IF life.running_ THEN @ ELSE @ + 1])

\* Backend::stop: if (consumer_thread_.joinable())
Stop_Joinable ==
    /\ life.stopper = "joinable"
    /\ LifeStep([life EXCEPT !.stopper = IF life.consumer_thread_ # 0
                                         THEN "join" ELSE "flush"])

\* Backend::stop: consumer_thread_.join() returns once the thread has ended
Stop_Join ==
    /\ life.stopper = "join"
    /\ life.consumer_thread_ # 0
    /\ life.threads[life.consumer_thread_] = "done"
    /\ LifeStep([life EXCEPT !.threads[life.consumer_thread_] = "joined",
                             !.consumer_thread_ = 0,
                             !.stopper = "flush"])

\* Backend::stop: flush_to_disk() and return
Stop_Flush ==
    /\ life.stopper = "flush"
    /\ LifeStep([life EXCEPT !.stopper = "idle", !.returned = @ + 1])

\* Backend::process_one_log on the producer's queue: one record less, or
\* false when the queue is empty
process_one_log(l) == [l EXCEPT !.pending = IF @ > 0 THEN @ - 1 ELSE 0]

\* Backend::consume_loop, one iteration of while (running_)
T_Loop(t) ==
    /\ life.threads[t] = "loop"
    /\ IF life.running_
       THEN life.pending > 0 /\ LifeStep(process_one_log(life))
       ELSE LifeStep([life EXCEPT !.threads[t] = "drain"])

\* Backend::consume_loop, one iteration of while (process_one_log()) {} and
\* the end of the thread
T_Drain(t) ==
    /\ life.threads[t] = "drain"
    /\ IF life.pending > 0
       THEN LifeStep(process_one_log(life))
       ELSE LifeStep([life EXCEPT !.threads[t] = "done"])

\* Logger::log_impl of the producer thread: one more record in its queue
L_Log ==
    /\ life.pending < LifeCapacity
    /\ LifeStep([life EXCEPT !.pending = @ + 1])

LifeNext ==
    \/ Start_Exchange \/ Start_Spawn
    \/ Stop_Exchange \/ Stop_Joinable \/ Stop_Join \/ Stop_Flush
    \/ \E t \in LifeThreads : T_Loop(t) \/ T_Drain(t)
    \/ L_Log

SpecLife == LifeSpecInit /\ [][LifeNext]_vars

\* The threads are scheduled again and again: the consumer threads, the
\* thread inside stop() and the thread inside start().  The producer logs
\* as often as it likes.
SpecLifeFair ==
    /\ SpecLife
    /\ \A t \in LifeThreads : WF_vars(T_Loop(t)) /\ WF_vars(T_Drain(t))
    /\ WF_vars(Stop_Joinable) /\ WF_vars(Stop_Join) /\ WF_vars(Stop_Flush)
    /\ WF_vars(Start_Spawn)

(***************************************************************************)
(* Claims about start() and stop(), checked under SpecLife / SpecLifeFair  *)
(***************************************************************************)
\* C35: once stop() is called and the consumer is scheduled fairly, the
\* final drain loop terminates and stop() returns, even if producer threads
\* keep logging during shutdown (start() and stop() called in turn).
C35_StopReturns ==
    (life.mode = "in turn" /\ life.stopper # "idle") ~> (life.stopper = "idle")

\* stop() has returned, start() is not being executed and no call of
\* start() began after the last call of stop() began.
StoppedForGood ==
    /\ life.returned > 0 /\ life.stopper = "idle" /\ life.starter = "idle"
    /\ ~life.startSinceStop /\ ~life.terminated

\* C36: when start() and stop() are called concurrently from different
\* threads, after stop() has returned and no later start() was made, no
\* consumer thread is running or still joinable.
C36_NoThreadLeft ==
    StoppedForGood =>
        /\ life.consumer_thread_ = 0
        /\ \A t \in LifeThreads : life.threads[t] \in {"none", "joined"}

(***************************************************************************)
(* SpecOut: one StringRingBuffer, written through a StringWriter, read     *)
(* with read() and flushed to a Sinker whose write() takes all, a part or  *)
(* none of the bytes it is given.  The k-th byte appended has the value k; *)
(* a cell of data_ that was never written holds 0.                         *)
(***************************************************************************)
MinSpace == 2
MaxOutCalls == 7
OutCapacities == {2, 3}
AppendLengths == 0..3
ReadLengths == 0..2

get_used_space(b) ==
    IF b.write_ >= b.read_ THEN b.write_ - b.read_
    ELSE b.capacity_ - b.read_ + b.write_

\* get_free_space, a mutation: no cell is kept free
get_free_space_nominus(b) == b.capacity_ - get_used_space(b)

get_free_space(b) == b.capacity_ - get_used_space(b) - 1

RECURSIVE write_bytes(_, _)
write_bytes(b, src) ==
    IF src = <<>> THEN b
    ELSE write_bytes([b EXCEPT !.data_[b.write_ + 1] = Head(src),
                               !.write_ = (b.write_ + 1) % b.capacity_],
                     Tail(src))

\* read_bytes: the buffer afterwards and the bytes copied to dst
RECURSIVE read_bytes(_, _)
read_bytes(b, length) ==
    IF length = 0 THEN [buf |-> b, dst |-> <<>>]
    ELSE LET rest == read_bytes([b EXCEPT !.read_ = (b.read_ + 1) % b.capacity_],
                                length - 1)
         IN  [buf |-> rest.buf, dst |-> <<b.data_[b.read_ + 1]>> \o rest.dst]

\* The n bytes at data_ + from
Stored(b, from, n) == [i \in 1..n |-> b.data_[from + i]]

RECURSIVE OutGrow(_, _, _)
OutGrow(new_capacity, capacity, min_additional) ==
    IF new_capacity - capacity < min_additional
    THEN OutGrow(new_capacity * 2, capacity, min_additional)
    ELSE new_capacity

expand(b, min_additional) ==
    LET new_capacity == OutGrow(b.capacity_ * 2, b.capacity_, min_additional)
        used == get_used_space(b)
        copied == IF b.write_ >= b.read_
                  THEN Stored(b, b.read_, used)
                  ELSE Stored(b, b.read_, b.capacity_ - b.read_)
                           \o Stored(b, 0, b.write_)
    IN  [data_ |-> copied \o [i \in 1..(new_capacity - used) |-> 0],
         capacity_ |-> new_capacity, read_ |-> 0, write_ |-> used]

\* StringWriter::append(data, length); push_back(c) is the same with one byte
StringWriter_append(b, src) ==
    write_bytes(IF get_free_space(b) < Len(src) THEN expand(b, Len(src)) ELSE b,
                src)

\* read(out, max_length)
StringRingBuffer_read(b, max_length) ==
    read_bytes(b, Min(get_used_space(b), max_length))

\* The lengths of the one or two calls of Sinker::write flush_to_sinker makes
FirstLength(b) ==
    IF b.write_ >= b.read_ THEN get_used_space(b) ELSE b.capacity_ - b.read_
SecondLength(b) == IF b.write_ >= b.read_ THEN 0 ELSE b.write_

\* The bytes the file takes when ::write returns r
Accepted(r) == IF r < 0 THEN 0 ELSE r

\* flush_to_sinker(sinker), first and second being what ::write returns in
\* the calls of Sinker::write: the buffer afterwards, the bytes the file
\* took, how many bytes the buffer held
flush_to_sinker(b, hasSinker, first, second) ==
    IF ~hasSinker \/ b.read_ = b.write_
    THEN [buf |-> b, taken |-> <<>>, used |-> 0, ran |-> FALSE]
    ELSE [buf |-> [b EXCEPT !.read_ = 0, !.write_ = 0],
          taken |-> Stored(b, b.read_, Accepted(first))
                        \o Stored(b, 0, Accepted(second)),
          used |-> get_used_space(b), ran |-> TRUE]

\* get_writer(sinker)
get_writer(b, hasSinker, first, second) ==
    IF get_free_space(b) < MinSpace
    THEN IF hasSinker
         THEN flush_to_sinker(b, TRUE, first, second)
         ELSE [buf |-> expand(b, MinSpace), taken |-> <<>>, used |-> 0, ran |-> FALSE]
    ELSE [buf |-> b, taken |-> <<>>, used |-> 0, ran |-> FALSE]

Wrapped(b) == b.write_ < b.read_

NoOutCall == [op |-> "none", flushed |-> FALSE, used |-> 0, accepted |-> 0]

OutInit ==
    \E c \in OutCapacities :
        out = [pc |-> "buffer",
               buf |-> [data_ |-> [i \in 1..c |-> 0], capacity_ |-> c,
                        read_ |-> 0, write_ |-> 0],
               appended |-> <<>>, taken |-> <<>>, failed |-> FALSE,
               seen |-> {}, calls |-> 0, last |-> NoOutCall]

OutSpecInit ==
    /\ RingIdle /\ QueueInit /\ LogInit /\ plan = NoPlan /\ SeqIdle /\ CodecIdle
    /\ fmt = NoFmt /\ sink = NoSink /\ LifeIdle /\ OutInit

OutStep(o) ==
    /\ out.pc = "buffer" /\ out.calls < MaxOutCalls
    /\ out' = [o EXCEPT !.calls = out.calls + 1]
    /\ UNCHANGED <<seqQueue, seqLast, codec, fmt, sink, life, ringVars, queueVars,
                   logVars>>

\* The flush of buffer b with results first and second, as a step
Flushing(op, f, first, second) ==
    [out EXCEPT !.buf = f.buf,
                !.taken = @ \o f.taken,
                !.failed = @ \/ (f.ran /\ Len(f.taken) < f.used),
                !.seen = @ \cup (IF f.ran /\ Wrapped(out.buf)
                                 THEN {"flush wrapped"} ELSE {})
                           \cup (IF ~f.ran /\ f.buf # out.buf /\ Wrapped(out.buf)
                                 THEN {"expand wrapped"} ELSE {}),
                !.last = [op |-> op, flushed |-> f.ran, used |-> f.used,
                          accepted |-> Len(f.taken)]]

\* The next length bytes to append
NextBytes(length) == [i \in 1..length |-> Len(out.appended) + i]

\* writer.append(data, length) with the next length bytes
OutAppend ==
    \E length \in AppendLengths :
        OutStep([out EXCEPT
                !.buf = StringWriter_append(out.buf, NextBytes(length)),
                !.appended = @ \o NextBytes(length),
                !.seen = @ \cup (IF get_free_space(out.buf) < length
                                    /\ Wrapped(out.buf)
                                 THEN {"expand wrapped"} ELSE {}),
                !.last = [NoOutCall EXCEPT !.op = "append"]])

\* get_writer(sinker), with or without a sinker
OutGetWriter ==
    \E hasSinker \in BOOLEAN :
    \E first \in WriteResults(FirstLength(out.buf)) :
    \E second \in WriteResults(SecondLength(out.buf)) :
        OutStep(Flushing("get_writer",
                         get_writer(out.buf, hasSinker, first, second),
                         first, second))

\* flush_to_sinker(sinker)
OutFlush ==
    \E first \in WriteResults(FirstLength(out.buf)) :
    \E second \in WriteResults(SecondLength(out.buf)) :
        OutStep(Flushing("flush",
                         flush_to_sinker(out.buf, TRUE, first, second),
                         first, second))

\* read(out, max_length)
OutRead ==
    \E max_length \in ReadLengths :
        OutStep([out EXCEPT
                !.buf = StringRingBuffer_read(out.buf, max_length).buf,
                !.taken = @ \o StringRingBuffer_read(out.buf, max_length).dst,
                !.seen = @ \cup (IF StringRingBuffer_read(out.buf, max_length).dst # <<>>
                                 THEN {"read"} ELSE {}),
                !.last = [NoOutCall EXCEPT !.op = "read"]])

OutNext == OutAppend \/ OutGetWriter \/ OutFlush \/ OutRead

SpecOut == OutSpecInit /\ [][OutNext]_vars

(***************************************************************************)
(* Claims about the output stage, checked under SpecOut                    *)
(***************************************************************************)
\* The bytes in the buffer, oldest first
Contents(b) == read_bytes(b, get_used_space(b)).dst

\* C37: with a sink that accepts every write, the bytes handed to the sink
\* or returned from read are exactly the bytes appended, in order, each
\* exactly once, across any sequence of append, push_back, expand,
\* get_writer and flush_to_sinker; the used space never exceeds
\* capacity - 1 and no append overwrites unread bytes.
C37_ByteStream ==
    (out.pc = "buffer" /\ ~out.failed) =>
        /\ out.taken \o Contents(out.buf) = out.appended
        /\ Len(out.appended) - Len(out.taken) <= out.buf.capacity_ - 1

\* Wrapped data has been expanded and wrapped data has been flushed in two
\* parts, bytes were read, and every write of the sink took all its bytes.
C37_Witness ==
    /\ out.pc = "buffer" /\ ~out.failed
    /\ out.seen = {"expand wrapped", "flush wrapped", "read"}
    /\ out.last.op = "flush" /\ out.last.flushed

\* C38: flush_to_sinker removes bytes from the output stage only if the sink
\* accepted them: when Sinker::write fails (no open file, write error or
\* short write) the bytes it did not write remain for a later flush.
C38_FlushKeepsUnwritten ==
    (out.pc = "buffer" /\ out.last.flushed) =>
        Len(Contents(out.buf)) = out.last.used - out.last.accepted

=============================================================================
